---- MODULE Spec2Model ----
(***************************************************************************)
(* Model of strategy-go: the Calculator (position sizing, leverage,        *)
(* take-profit, validation), the fixed risk-reward RiskRatioStrategy built *)
(* on it, and the ConservativeStrategy, MultiTPStrategy and                *)
(* TrailingStrategy of the examples and the guide.                         *)
(*                                                                         *)
(* float64 values are modelled as exact rationals [n, d] in lowest terms   *)
(* with d > 0.  A division by zero yields the IEEE-754 special values,     *)
(* encoded with d = 0: 1/0 is +Inf, -1/0 is -Inf and 0/0 is NaN.  The      *)
(* inputs the model draws are finite; rounding of float64 arithmetic is    *)
(* not modelled.                                                           *)
(***************************************************************************)
EXTENDS Integers, Sequences, FiniteSets, TLC

VARIABLES
    strat,      \* the strategy instance in use, or Nil before New
    now,        \* the wall clock read by time.Now()
    call,       \* the call in progress: [op, args], or Nil when idle
    ret,        \* what the call in progress returned, or Nil when idle
    probe,      \* history: the PositionParams whose outcomes are recorded
    outcomes,   \* history: <<rrRatio, outcome>> of every call made with probe
    goroutines, \* the frame of the call each goroutine is running, or Nil
    history     \* history: per symbol, the open position and what it has seen

vars == <<strat, now, call, ret, probe, outcomes, goroutines, history>>

\* nil (a pointer, an error, an absent value)
Nil == [nil |-> TRUE]

---------------------------------------------------------------------------
(* Bounds of the model *)

MaxTime == 2

\* how many goroutines call into one shared strategy at once
MaxGoroutines == 2

\* OnPriceUpdate calls made for one open position
MaxUpdates == 2

Goroutines == 1 .. MaxGoroutines

---------------------------------------------------------------------------
(* float64 as rationals *)

Abs(i) == IF i < 0 THEN -i ELSE i

Sgn(i) == IF i > 0 THEN 1 ELSE IF i < 0 THEN -1 ELSE 0

RECURSIVE GCD(_, _)
GCD(a, b) == IF b = 0 THEN a ELSE GCD(b, a % b)

Q(n, d) ==
    LET g == GCD(Abs(n), Abs(d))
    IN  IF d > 0 THEN [n |-> n \div g, d |-> d \div g]
        ELSE IF d < 0 THEN [n |-> (-n) \div g, d |-> (-d) \div g]
        ELSE [n |-> Sgn(n), d |-> 0]

QI(i) == [n |-> i, d |-> 1]

IsFinite(a) == a.d # 0
IsNaN(a) == a.d = 0 /\ a.n = 0

QAdd(a, b) == Q(a.n * b.d + b.n * a.d, a.d * b.d)
QSub(a, b) == Q(a.n * b.d - b.n * a.d, a.d * b.d)
QMul(a, b) == Q(a.n * b.n, a.d * b.d)
QDiv(a, b) ==
    IF b.n = 0 THEN [n |-> Sgn(a.n), d |-> 0]
    ELSE Q(a.n * b.d, a.d * b.n)

\* Comparisons; every comparison with NaN is false, as in IEEE-754.
QLt(a, b) == a.n * b.d < b.n * a.d
QGt(a, b) == QLt(b, a)
QEq(a, b) == ~IsNaN(a) /\ a = b
QLe(a, b) == QLt(a, b) \/ QEq(a, b)
QGe(a, b) == QLe(b, a)

\* math.Abs
MathAbs(a) == [n |-> Abs(a.n), d |-> a.d]

\* A ceiling computed as floor + 1, which rounds an integral value up too
MathCeilFloorPlusOne(a) == IF a.d = 0 THEN a ELSE QI((a.n \div a.d) + 1)

\* A ceiling that rounds down instead
MathCeilFloor(a) == IF a.d = 0 THEN a ELSE QI(a.n \div a.d)

\* math.Ceil: the least integral value >= a; a special value is returned as is.
MathCeil(a) == IF a.d = 0 THEN a ELSE QI(-((-a.n) \div a.d))

\* The conversion int(f).  For a finite integral f it is f; the Go language
\* leaves the result implementation-dependent when f is not representable
\* (+Inf, -Inf, NaN): any int may come back.
ImplDependentInts == {-(2^30), -1, 0, 1, 2^30}

\* A finite f is truncated toward zero.
FloatToInt(a) ==
    IF a.d = 0 THEN ImplDependentInts
    ELSE IF a.n >= 0 THEN {a.n \div a.d}
    ELSE {-((-a.n) \div a.d)}

---------------------------------------------------------------------------
(* Types *)

SideLong == "LONG"
SideShort == "SHORT"

StopLossTypeFixed == "FIXED"
TakeProfitTypeLimit == "LIMIT"
ActionTypeNone == "NONE"
ActionTypeAdjustSL == "ADJUST_SL"

---------------------------------------------------------------------------
(* Calculator *)

\* fmt.Errorf without a wrapped cause
NewError(msg) == [msg |-> msg]

\* calculator.New
CalculatorNew(maxLeverage) == [maxLeverage |-> maxLeverage]

\* CalculateSize taking entry - stopLoss as the price risk on both sides
CalculateSizeLongOnly(balance, riskPercent, entry, stopLoss, side) ==
    LET riskAmount == QMul(balance, QDiv(riskPercent, QI(100)))
        priceRisk  == QSub(entry, stopLoss)
    IN  QDiv(riskAmount, priceRisk)

\* CalculateSize dividing the risk amount by the entry price instead of by
\* the distance to the stop
CalculateSizeByEntry(balance, riskPercent, entry, stopLoss, side) ==
    QDiv(QMul(balance, QDiv(riskPercent, QI(100))), entry)

\* Calculator.CalculateSize
CalculateSize(balance, riskPercent, entry, stopLoss, side) ==
    LET riskAmount == QMul(balance, QDiv(riskPercent, QI(100)))
        priceRisk  == IF side = SideLong THEN QSub(entry, stopLoss)
                      ELSE QSub(stopLoss, entry)
    IN  QDiv(riskAmount, priceRisk)

\* CalculateLeverage converting the quotient to an integer without rounding
\* it up first
CalculateLeverageTruncated(size, price, balance, maxLeverage) ==
    LET notional == QMul(size, price)
    IN  { IF requiredLeverage > maxLeverage THEN maxLeverage
          ELSE IF requiredLeverage < 1 THEN 1
          ELSE requiredLeverage :
            requiredLeverage \in FloatToInt(QDiv(notional, balance)) }

\* Calculator.CalculateLeverage: the set of values the build can return (one
\* value unless the quotient is not finite).
CalculateLeverage(size, price, balance, maxLeverage) ==
    LET notional == QMul(size, price)
    IN  { IF requiredLeverage > maxLeverage THEN maxLeverage
          ELSE IF requiredLeverage < 1 THEN 1
          ELSE requiredLeverage :
            requiredLeverage \in FloatToInt(MathCeil(QDiv(notional, balance))) }

\* CalculateRRTakeProfit with the signed distance entry - stopLoss
CalculateRRTakeProfitSigned(entry, stopLoss, rrRatio, side) ==
    LET slDistance == QSub(entry, stopLoss)
    IN  IF side = SideLong THEN QAdd(entry, QMul(slDistance, rrRatio))
        ELSE QSub(entry, QMul(slDistance, rrRatio))

\* Calculator.CalculateRRTakeProfit
CalculateRRTakeProfit(entry, stopLoss, rrRatio, side) ==
    LET slDistance == MathAbs(QSub(entry, stopLoss))
    IN  IF side = SideLong THEN QAdd(entry, QMul(slDistance, rrRatio))
        ELSE QSub(entry, QMul(slDistance, rrRatio))

\* ValidatePriceLogic letting a Short entry at the current price through
ValidatePriceLogicShortAtMarket(side, entry, current) ==
    IF side = SideLong /\ QGe(entry, current)
        THEN NewError("LONG limit order entry must be below current price")
    ELSE IF side = SideShort /\ QLt(entry, current)
        THEN NewError("SHORT limit order entry must be above current price")
    ELSE Nil

\* Calculator.ValidatePriceLogic: the error, or Nil
ValidatePriceLogic(side, entry, current) ==
    IF side = SideLong /\ QGe(entry, current)
        THEN NewError("LONG limit order entry must be below current price")
    ELSE IF side = SideShort /\ QLe(entry, current)
        THEN NewError("SHORT limit order entry must be above current price")
    ELSE Nil

\* ValidateStopLoss letting a Long stop at the entry price through
ValidateStopLossLongAtEntry(side, entry, stopLoss) ==
    IF side = SideLong /\ QGt(stopLoss, entry)
        THEN NewError("LONG stop loss must be below entry")
    ELSE IF side = SideShort /\ QLe(stopLoss, entry)
        THEN NewError("SHORT stop loss must be above entry")
    ELSE Nil

\* Calculator.ValidateStopLoss: the error, or Nil
ValidateStopLoss(side, entry, stopLoss) ==
    IF side = SideLong /\ QGe(stopLoss, entry)
        THEN NewError("LONG stop loss must be below entry")
    ELSE IF side = SideShort /\ QLe(stopLoss, entry)
        THEN NewError("SHORT stop loss must be above entry")
    ELSE Nil

\* CalculatePnLPercent guarding against a negative entry price only
CalculatePnLPercentZeroEntry(side, entryPrice, markPrice) ==
    IF QLt(entryPrice, QI(0)) THEN QI(0)
    ELSE IF side = SideLong
        THEN QMul(QDiv(QSub(markPrice, entryPrice), entryPrice), QI(100))
    ELSE QMul(QDiv(QSub(entryPrice, markPrice), entryPrice), QI(100))

\* Calculator.CalculatePnLPercent
CalculatePnLPercent(side, entryPrice, markPrice) ==
    IF QLe(entryPrice, QI(0)) THEN QI(0)
    ELSE IF side = SideLong
        THEN QMul(QDiv(QSub(markPrice, entryPrice), entryPrice), QI(100))
    ELSE QMul(QDiv(QSub(entryPrice, markPrice), entryPrice), QI(100))

\* Calculator.CalculateDistanceToPrice
CalculateDistanceToPrice(side, currentPrice, targetPrice) ==
    IF QLe(currentPrice, QI(0)) THEN QI(0)
    ELSE IF side = SideLong
        THEN QMul(QDiv(QSub(targetPrice, currentPrice), currentPrice), QI(100))
    ELSE QMul(QDiv(QSub(currentPrice, targetPrice), currentPrice), QI(100))

\* Calculator.CalculateExpectedPnL
CalculateExpectedPnL(side, entryPrice, exitPrice, size) ==
    [nominal |-> IF side = SideLong
                     THEN QMul(QSub(exitPrice, entryPrice), size)
                     ELSE QMul(QSub(entryPrice, exitPrice), size),
     percent |-> CalculatePnLPercent(side, entryPrice, exitPrice)]

\* ValidateInputs with the upper risk bound made exclusive
ValidateInputsRiskBelow100(side, entryPrice, stopLoss, riskPercent, accountEquity) ==
    IF QLe(entryPrice, QI(0)) THEN NewError("entry price must be positive")
    ELSE IF QLe(stopLoss, QI(0)) THEN NewError("stop loss must be positive")
    ELSE IF QLe(riskPercent, QI(0)) \/ QGe(riskPercent, QI(100))
        THEN NewError("risk percent must be between 0 and 100")
    ELSE IF QLe(accountEquity, QI(0)) THEN NewError("account equity must be positive")
    ELSE ValidateStopLoss(side, entryPrice, stopLoss)

\* ValidateInputs checking the account equity before the prices
ValidateInputsEquityFirst(side, entryPrice, stopLoss, riskPercent, accountEquity) ==
    IF QLe(accountEquity, QI(0)) THEN NewError("account equity must be positive")
    ELSE IF QLe(entryPrice, QI(0)) THEN NewError("entry price must be positive")
    ELSE IF QLe(stopLoss, QI(0)) THEN NewError("stop loss must be positive")
    ELSE IF QLe(riskPercent, QI(0)) \/ QGt(riskPercent, QI(100))
        THEN NewError("risk percent must be between 0 and 100")
    ELSE ValidateStopLoss(side, entryPrice, stopLoss)

\* Calculator.ValidateInputs: the error, or Nil
ValidateInputs(side, entryPrice, stopLoss, riskPercent, accountEquity) ==
    IF QLe(entryPrice, QI(0)) THEN NewError("entry price must be positive")
    ELSE IF QLe(stopLoss, QI(0)) THEN NewError("stop loss must be positive")
    ELSE IF QLe(riskPercent, QI(0)) \/ QGt(riskPercent, QI(100))
        THEN NewError("risk percent must be between 0 and 100")
    ELSE IF QLe(accountEquity, QI(0)) THEN NewError("account equity must be positive")
    ELSE ValidateStopLoss(side, entryPrice, stopLoss)

---------------------------------------------------------------------------
(* RiskRatioStrategy *)

\* riskratio.New
New(rrRatio) == [calculator |-> CalculatorNew(125), rrRatio |-> rrRatio]

\* RiskRatioStrategy.Name
Name == "risk-ratio"

\* RiskRatioStrategy.Description: the format and the ratio it prints
Description(s) ==
    [format |-> "Fixed risk-reward ratio strategy (%.1f:1)",
     rrRatio |-> s.rrRatio]

\* RiskRatioStrategy.ValidateParams: the error, or Nil
ValidateParams(s, params) == Nil

\* calculatorSideFromStrategy handing the side over as it came
calculatorSideUnconverted(side) == side

\* calculatorSideFromStrategy
calculatorSideFromStrategy(side) ==
    IF side = SideLong THEN SideLong ELSE SideShort

\* fmt.Errorf("validation failed: %w", err)
WrapError(msg, err) == [msg |-> msg, cause |-> err]

\* BuildPlan with a take profit that drifts with the time of the call
BuildPlanTimeDependent(params, size, leverage, tpPrice, t) ==
    [Symbol        |-> params.Symbol,
     Side          |-> params.Side,
     Size          |-> size,
     EntryPrice    |-> params.EntryPrice,
     Leverage      |-> leverage,
     StopLoss      |-> [Price |-> params.StopLoss, Type |-> StopLossTypeFixed],
     TakeProfits   |-> << [Price      |-> QAdd(tpPrice, QI(t)),
                           Percentage |-> QI(100),
                           Type       |-> TakeProfitTypeLimit] >>,
     RiskAmount    |-> QDiv(QMul(params.AccountBalance, params.RiskPercent),
                            QI(100)),
     RiskPercent   |-> params.RiskPercent,
     NotionalValue |-> QMul(size, params.EntryPrice),
     StrategyName  |-> Name,
     Timestamp     |-> t]

\* BuildPlan closing only half of the position at the take profit
BuildPlanPartialTakeProfit(params, size, leverage, tpPrice, t) ==
    [Symbol        |-> params.Symbol,
     Side          |-> params.Side,
     Size          |-> size,
     EntryPrice    |-> params.EntryPrice,
     Leverage      |-> leverage,
     StopLoss      |-> [Price |-> params.StopLoss, Type |-> StopLossTypeFixed],
     TakeProfits   |-> << [Price      |-> tpPrice,
                           Percentage |-> QI(50),
                           Type       |-> TakeProfitTypeLimit] >>,
     RiskAmount    |-> QDiv(QMul(params.AccountBalance, params.RiskPercent),
                            QI(100)),
     RiskPercent   |-> params.RiskPercent,
     NotionalValue |-> QMul(size, params.EntryPrice),
     StrategyName  |-> Name,
     Timestamp     |-> t]

\* BuildPlan reporting the side the calculator worked with instead of the
\* side the caller gave
BuildPlanConvertedSide(params, size, leverage, tpPrice, t) ==
    [Symbol        |-> params.Symbol,
     Side          |-> calculatorSideFromStrategy(params.Side),
     Size          |-> size,
     EntryPrice    |-> params.EntryPrice,
     Leverage      |-> leverage,
     StopLoss      |-> [Price |-> params.StopLoss, Type |-> StopLossTypeFixed],
     TakeProfits   |-> << [Price      |-> tpPrice,
                           Percentage |-> QI(100),
                           Type       |-> TakeProfitTypeLimit] >>,
     RiskAmount    |-> QDiv(QMul(params.AccountBalance, params.RiskPercent),
                            QI(100)),
     RiskPercent   |-> params.RiskPercent,
     NotionalValue |-> QMul(size, params.EntryPrice),
     StrategyName  |-> Name,
     Timestamp     |-> t]

\* The PositionPlan literal CalculatePosition returns
BuildPlan(params, size, leverage, tpPrice, t) ==
    [Symbol        |-> params.Symbol,
     Side          |-> params.Side,
     Size          |-> size,
     EntryPrice    |-> params.EntryPrice,
     Leverage      |-> leverage,
     StopLoss      |-> [Price |-> params.StopLoss, Type |-> StopLossTypeFixed],
     TakeProfits   |-> << [Price      |-> tpPrice,
                           Percentage |-> QI(100),
                           Type       |-> TakeProfitTypeLimit] >>,
     RiskAmount    |-> QDiv(QMul(params.AccountBalance, params.RiskPercent),
                            QI(100)),
     RiskPercent   |-> params.RiskPercent,
     NotionalValue |-> QMul(size, params.EntryPrice),
     StrategyName  |-> Name,
     Timestamp     |-> t]

\* CalculatePosition computing first and validating last, so that a failed
\* validation comes back with the plan already built
CalculatePositionPlanWithError(s, params, t) ==
    LET calcSide == calculatorSideFromStrategy(params.Side)
        err == ValidateInputs(calcSide, params.EntryPrice, params.StopLoss,
                              params.RiskPercent, params.AccountBalance)
        size == CalculateSize(params.AccountBalance, params.RiskPercent,
                              params.EntryPrice, params.StopLoss, calcSide)
        tpPrice == CalculateRRTakeProfit(params.EntryPrice, params.StopLoss,
                                         s.rrRatio, calcSide)
    IN  { [plan |-> BuildPlan(params, size, leverage, tpPrice, t),
           err |-> IF err # Nil THEN WrapError("validation failed", err)
                   ELSE Nil] :
          leverage \in CalculateLeverage(size, params.EntryPrice,
                                         params.AccountBalance,
                                         params.MaxLeverage) }

\* RiskRatioStrategy.CalculatePosition: the set of (plan, error) pairs the
\* call can return for strategy s at clock reading t.
CalculatePosition(s, params, t) ==
    LET calcSide == calculatorSideFromStrategy(params.Side)
        err == ValidateInputs(calcSide, params.EntryPrice, params.StopLoss,
                              params.RiskPercent, params.AccountBalance)
        size == CalculateSize(params.AccountBalance, params.RiskPercent,
                              params.EntryPrice, params.StopLoss, calcSide)
        tpPrice == CalculateRRTakeProfit(params.EntryPrice, params.StopLoss,
                                         s.rrRatio, calcSide)
    IN  IF err # Nil
        THEN { [plan |-> Nil, err |-> WrapError("validation failed", err)] }
        ELSE { [plan |-> BuildPlan(params, size, leverage, tpPrice, t),
                err |-> Nil] :
               leverage \in CalculateLeverage(size, params.EntryPrice,
                                              params.AccountBalance,
                                              params.MaxLeverage) }

\* RiskRatioStrategy.OnPositionOpened: the error, or Nil
OnPositionOpened(s, position) == Nil

\* OnPriceUpdate moving the stop to break-even once a Long is in profit
OnPriceUpdateTrailing(s, position, currentPrice) ==
    IF position.Side = SideLong /\ QGt(currentPrice, position.EntryPrice)
    THEN [action |-> [Type |-> ActionTypeAdjustSL, Reason |-> "trailing",
                      Orders |-> <<>>],
          err |-> Nil]
    ELSE [action |-> [Type |-> ActionTypeNone, Reason |-> "", Orders |-> <<>>],
          err |-> Nil]

\* RiskRatioStrategy.OnPriceUpdate
OnPriceUpdate(s, position, currentPrice) ==
    [action |-> [Type |-> ActionTypeNone, Reason |-> "", Orders |-> <<>>],
     err |-> Nil]

\* RiskRatioStrategy.ShouldClose
ShouldClose(s, position, currentPrice) == [close |-> FALSE, reason |-> ""]

---------------------------------------------------------------------------
(* RiskRatioStrategy.CalculatePosition and the hooks, one statement at a    *)
(* time.  A frame holds the locals of one call in progress; every step is   *)
(* given the receiver s and the frame and returns the receiver and frame    *)
(* it leaves behind.                                                        *)

\* the frame of a call: the operation, its arguments, the statement it is
\* at, its locals, the Calculator calls it has made and what it returned
Frame(op, args, pc, calcSide, size, leverage, tpPrice, calls, result) ==
    [op |-> op, args |-> args, pc |-> pc, calcSide |-> calcSide,
     size |-> size, leverage |-> leverage, tpPrice |-> tpPrice,
     calls |-> calls, result |-> result]

\* the frame of a call that has not executed anything yet
NewFrame(op, args, pc) ==
    Frame(op, args, pc, "", QI(0), 0, QI(0), <<>>, Nil)

\* the Calculator call fn(args) that returned result
CalculatorCall(fn, args, result) ==
    [fn |-> fn, args |-> args, result |-> result]

\* The validation step going on to the sizing whatever ValidateInputs said
StepValidateInputsUnchecked(s, f) ==
    LET params == f.args.params
        calcSide == calculatorSideFromStrategy(params.Side)
        err == ValidateInputs(calcSide, params.EntryPrice, params.StopLoss,
                              params.RiskPercent, params.AccountBalance)
        called == Append(f.calls,
                         CalculatorCall("ValidateInputs",
                                        <<calcSide, params.EntryPrice,
                                          params.StopLoss, params.RiskPercent,
                                          params.AccountBalance>>, err))
    IN  { [s |-> s,
           f |-> Frame(f.op, f.args, "CalculateSize", calcSide, f.size,
                       f.leverage, f.tpPrice, called, f.result)] }

\* calcSide := calculatorSideFromStrategy(params.Side), then ValidateInputs
\* and the return of the wrapped error
StepValidateInputs(s, f) ==
    LET params == f.args.params
        calcSide == calculatorSideFromStrategy(params.Side)
        err == ValidateInputs(calcSide, params.EntryPrice, params.StopLoss,
                              params.RiskPercent, params.AccountBalance)
        called == Append(f.calls,
                         CalculatorCall("ValidateInputs",
                                        <<calcSide, params.EntryPrice,
                                          params.StopLoss, params.RiskPercent,
                                          params.AccountBalance>>, err))
    IN  { [s |-> s,
           f |-> IF err # Nil
                 THEN Frame(f.op, f.args, "done", calcSide, f.size,
                            f.leverage, f.tpPrice, called,
                            [plan |-> Nil,
                             err |-> WrapError("validation failed", err)])
                 ELSE Frame(f.op, f.args, "CalculateSize", calcSide, f.size,
                            f.leverage, f.tpPrice, called, f.result)] }

\* size := s.calculator.CalculateSize(...)
StepCalculateSize(s, f) ==
    LET params == f.args.params
        size == CalculateSize(params.AccountBalance, params.RiskPercent,
                              params.EntryPrice, params.StopLoss, f.calcSide)
        called == Append(f.calls,
                         CalculatorCall("CalculateSize",
                                        <<params.AccountBalance,
                                          params.RiskPercent,
                                          params.EntryPrice, params.StopLoss,
                                          f.calcSide>>, size))
    IN  { [s |-> s,
           f |-> Frame(f.op, f.args, "CalculateLeverage", f.calcSide, size,
                       f.leverage, f.tpPrice, called, f.result)] }

\* leverage := s.calculator.CalculateLeverage(...)
StepCalculateLeverage(s, f) ==
    LET params == f.args.params
    IN  { [s |-> s,
           f |-> Frame(f.op, f.args, "CalculateRRTakeProfit", f.calcSide,
                       f.size, leverage, f.tpPrice,
                       Append(f.calls,
                              CalculatorCall("CalculateLeverage",
                                             <<f.size, params.EntryPrice,
                                               params.AccountBalance,
                                               params.MaxLeverage>>,
                                             leverage)),
                       f.result)] :
          leverage \in CalculateLeverage(f.size, params.EntryPrice,
                                         params.AccountBalance,
                                         params.MaxLeverage) }

\* The take-profit step of a strategy that widens its ratio by one after
\* every plan, writing the field the other goroutines read
StepCalculateRRTakeProfitAdaptive(s, f) ==
    LET params == f.args.params
        tpPrice == CalculateRRTakeProfit(params.EntryPrice, params.StopLoss,
                                         s.rrRatio, f.calcSide)
        called == Append(f.calls,
                         CalculatorCall("CalculateRRTakeProfit",
                                        <<params.EntryPrice, params.StopLoss,
                                          s.rrRatio, f.calcSide>>, tpPrice))
    IN  { [s |-> [calculator |-> s.calculator,
                  rrRatio |-> QAdd(s.rrRatio, QI(1))],
           f |-> Frame(f.op, f.args, "plan", f.calcSide, f.size, f.leverage,
                       tpPrice, called, f.result)] }

\* tpPrice := s.calculator.CalculateRRTakeProfit(..., s.rrRatio, calcSide)
StepCalculateRRTakeProfit(s, f) ==
    LET params == f.args.params
        tpPrice == CalculateRRTakeProfit(params.EntryPrice, params.StopLoss,
                                         s.rrRatio, f.calcSide)
        called == Append(f.calls,
                         CalculatorCall("CalculateRRTakeProfit",
                                        <<params.EntryPrice, params.StopLoss,
                                          s.rrRatio, f.calcSide>>, tpPrice))
    IN  { [s |-> s,
           f |-> Frame(f.op, f.args, "plan", f.calcSide, f.size, f.leverage,
                       tpPrice, called, f.result)] }

\* return &strategy.PositionPlan{...}, nil at clock reading t
StepBuildPlan(s, f, t) ==
    { [s |-> s,
       f |-> Frame(f.op, f.args, "done", f.calcSide, f.size, f.leverage,
                   f.tpPrice, f.calls,
                   [plan |-> BuildPlan(f.args.params, f.size, f.leverage,
                                       f.tpPrice, t),
                    err |-> Nil])] }

\* The body of a hook that stamps the price it was given into the snapshot
\* it was handed
StepHookMarkingPrice(s, f) ==
    { [s |-> s,
       f |-> Frame(f.op,
                   IF f.op = "OnPriceUpdate"
                   THEN [position |->
                            [Symbol     |-> f.args.position.Symbol,
                             Side       |-> f.args.position.Side,
                             Size       |-> f.args.position.Size,
                             EntryPrice |-> f.args.position.EntryPrice,
                             MarkPrice  |-> f.args.currentPrice],
                         currentPrice |-> f.args.currentPrice]
                   ELSE f.args,
                   "done", f.calcSide, f.size, f.leverage, f.tpPrice, f.calls,
                   CASE f.op = "OnPositionOpened" ->
                          [err |-> OnPositionOpened(s, f.args.position)]
                     [] f.op = "OnPriceUpdate" ->
                          OnPriceUpdate(s, f.args.position,
                                        f.args.currentPrice)
                     [] f.op = "ShouldClose" ->
                          ShouldClose(s, f.args.position,
                                      f.args.currentPrice)
                     [] f.op = "Name" -> [name |-> Name]
                     [] f.op = "Description" -> [text |-> Description(s)]
                     [] f.op = "ValidateParams" ->
                          [err |-> ValidateParams(s, f.args.params)])] }

\* the body of Name, Description, ValidateParams, OnPositionOpened,
\* OnPriceUpdate or ShouldClose
StepHook(s, f) ==
    { [s |-> s,
       f |-> Frame(f.op, f.args, "done", f.calcSide, f.size, f.leverage,
                   f.tpPrice, f.calls,
                   CASE f.op = "OnPositionOpened" ->
                          [err |-> OnPositionOpened(s, f.args.position)]
                     [] f.op = "OnPriceUpdate" ->
                          OnPriceUpdate(s, f.args.position,
                                        f.args.currentPrice)
                     [] f.op = "ShouldClose" ->
                          ShouldClose(s, f.args.position,
                                      f.args.currentPrice)
                     [] f.op = "Name" -> [name |-> Name]
                     [] f.op = "Description" -> [text |-> Description(s)]
                     [] f.op = "ValidateParams" ->
                          [err |-> ValidateParams(s, f.args.params)])] }

---------------------------------------------------------------------------
(* ConservativeStrategy, the custom strategy of the examples *)

\* NewConservative
NewConservative ==
    [calculator |-> CalculatorNew(10), rrRatio |-> Q(3, 2), maxRisk |-> QI(1)]

\* ConservativeStrategy.Name
ConservativeName == "conservative"

\* The PositionPlan literal ConservativeStrategy.CalculatePosition returns;
\* it sets no Timestamp, which keeps the zero value.
ConservativeBuildPlan(params, riskPercent, size, leverage, tpPrice) ==
    [Symbol        |-> params.Symbol,
     Side          |-> params.Side,
     Size          |-> size,
     EntryPrice    |-> params.EntryPrice,
     Leverage      |-> leverage,
     StopLoss      |-> [Price |-> params.StopLoss, Type |-> StopLossTypeFixed],
     TakeProfits   |-> << [Price      |-> tpPrice,
                           Percentage |-> QI(100),
                           Type       |-> TakeProfitTypeLimit] >>,
     RiskAmount    |-> QDiv(QMul(params.AccountBalance, riskPercent), QI(100)),
     RiskPercent   |-> riskPercent,
     NotionalValue |-> QMul(size, params.EntryPrice),
     StrategyName  |-> ConservativeName,
     Timestamp     |-> 0]

\* ConservativeStrategy.CalculatePosition reporting the capped risk but
\* sizing the position from the requested one
ConservativeCalculatePositionSizedAsRequested(s, params) ==
    LET riskPercent == IF QGt(params.RiskPercent, s.maxRisk)
                       THEN s.maxRisk ELSE params.RiskPercent
        err == ValidateInputs(params.Side, params.EntryPrice, params.StopLoss,
                              riskPercent, params.AccountBalance)
        size == CalculateSize(params.AccountBalance, params.RiskPercent,
                              params.EntryPrice, params.StopLoss, params.Side)
        tpPrice == CalculateRRTakeProfit(params.EntryPrice, params.StopLoss,
                                         s.rrRatio, params.Side)
    IN  IF err # Nil
        THEN { [plan |-> Nil, err |-> WrapError("validation failed", err)] }
        ELSE { [plan |-> ConservativeBuildPlan(params, riskPercent, size,
                                               leverage, tpPrice),
                err |-> Nil] :
               leverage \in CalculateLeverage(size, params.EntryPrice,
                                              params.AccountBalance, 10) }

\* ConservativeStrategy.CalculatePosition: the set of (plan, error) pairs the
\* call can return. The warning it prints when it caps the risk is not part
\* of the result.
ConservativeCalculatePosition(s, params) ==
    LET riskPercent == IF QGt(params.RiskPercent, s.maxRisk)
                       THEN s.maxRisk ELSE params.RiskPercent
        err == ValidateInputs(params.Side, params.EntryPrice, params.StopLoss,
                              riskPercent, params.AccountBalance)
        size == CalculateSize(params.AccountBalance, riskPercent,
                              params.EntryPrice, params.StopLoss, params.Side)
        tpPrice == CalculateRRTakeProfit(params.EntryPrice, params.StopLoss,
                                         s.rrRatio, params.Side)
    IN  IF err # Nil
        THEN { [plan |-> Nil, err |-> WrapError("validation failed", err)] }
        ELSE { [plan |-> ConservativeBuildPlan(params, riskPercent, size,
                                               leverage, tpPrice),
                err |-> Nil] :
               leverage \in CalculateLeverage(size, params.EntryPrice,
                                              params.AccountBalance, 10) }

---------------------------------------------------------------------------
(* MultiTPStrategy, the strategy with several take-profit levels of the     *)
(* guide                                                                    *)

\* multitp.New
NewMultiTP(tpLevels) ==
    [calculator |-> CalculatorNew(125), tpLevels |-> tpLevels]

\* MultiTPStrategy.Name
MultiTPName == "multi-tp"

\* total += level.Percentage over the levels, starting from total
RECURSIVE TotalPercentage(_, _)
TotalPercentage(tpLevels, total) ==
    IF tpLevels = <<>> THEN total
    ELSE TotalPercentage(Tail(tpLevels),
                         QAdd(total, Head(tpLevels).Percentage))

\* MultiTPStrategy.ValidateParams: the error, or Nil
MultiTPValidateParams(s, params) ==
    IF TotalPercentage(s.tpLevels, QI(0)) # QI(100)
    THEN NewError("TP percentages must sum to 100")
    ELSE Nil

\* MultiTPStrategy.CalculatePosition: the set of (plan, error) pairs the call
\* can return at clock reading t
MultiTPCalculatePosition(s, params, t) ==
    LET err == ValidateInputs(params.Side, params.EntryPrice, params.StopLoss,
                              params.RiskPercent, params.AccountBalance)
        size == CalculateSize(params.AccountBalance, params.RiskPercent,
                              params.EntryPrice, params.StopLoss, params.Side)
        tpLevels ==
            [i \in 1 .. Len(s.tpLevels) |->
                [Price      |-> CalculateRRTakeProfit(params.EntryPrice,
                                                      params.StopLoss,
                                                      s.tpLevels[i].RRRatio,
                                                      params.Side),
                 Percentage |-> s.tpLevels[i].Percentage,
                 Type       |-> TakeProfitTypeLimit]]
    IN  IF err # Nil
        THEN { [plan |-> Nil, err |-> WrapError("validation failed", err)] }
        ELSE { [plan |->
                   [Symbol        |-> params.Symbol,
                    Side          |-> params.Side,
                    Size          |-> size,
                    EntryPrice    |-> params.EntryPrice,
                    Leverage      |-> leverage,
                    StopLoss      |-> [Price |-> params.StopLoss,
                                       Type |-> StopLossTypeFixed],
                    TakeProfits   |-> tpLevels,
                    RiskAmount    |-> QDiv(QMul(params.AccountBalance,
                                                params.RiskPercent), QI(100)),
                    RiskPercent   |-> params.RiskPercent,
                    NotionalValue |-> QMul(size, params.EntryPrice),
                    StrategyName  |-> MultiTPName,
                    Timestamp     |-> t],
                err |-> Nil] :
               leverage \in CalculateLeverage(size, params.EntryPrice,
                                              params.AccountBalance,
                                              params.MaxLeverage) }

---------------------------------------------------------------------------
(* TrailingStrategy, the guide's example of a strategy with tracked state *)

\* make(map[string]float64)
EmptyMap == [sym \in {} |-> Nil]

\* m[key] = value
MapPut(m, key, value) ==
    [k \in DOMAIN m \cup {key} |-> IF k = key THEN value ELSE m[k]]

\* The TrailingStrategy struct
TrailingStrategy(calc, rrRatio, trailPercent, activationRR, highestPrice) ==
    [calculator   |-> calc,
     rrRatio      |-> rrRatio,
     trailPercent |-> trailPercent,
     activationRR |-> activationRR,
     highestPrice |-> highestPrice]

\* trailing.New
NewTrailing(rrRatio, trailPercent, activationRR) ==
    TrailingStrategy(CalculatorNew(125), rrRatio, trailPercent, activationRR,
                     EmptyMap)

\* s with its highestPrice map replaced
WithHighestPrice(s, highestPrice) ==
    TrailingStrategy(s.calculator, s.rrRatio, s.trailPercent, s.activationRR,
                     highestPrice)

\* TrailingStrategy.OnPositionOpened: the strategy afterwards and the error
TrailingOnPositionOpened(s, position) ==
    [s   |-> WithHighestPrice(s, MapPut(s.highestPrice, position.Symbol,
                                        position.EntryPrice)),
     err |-> Nil]

\* The two actions OnPriceUpdate returns
ActionNone == [Type |-> ActionTypeNone, NewPrice |-> QI(0)]
ActionAdjustSL(newSL) == [Type |-> ActionTypeAdjustSL, NewPrice |-> newSL]

\* The action of OnPriceUpdate once the highest price is known
TrailingAction(s, position, currentPrice, highest) ==
    LET slDistance == MathAbs(QSub(position.EntryPrice,
                                   position.LiquidationPrice))
        currentProfit == MathAbs(QSub(currentPrice, position.EntryPrice))
        currentRR == QDiv(currentProfit, slDistance)
        newSL == IF position.Side = SideLong
                 THEN QMul(highest, QSub(QI(1), s.trailPercent))
                 ELSE QMul(highest, QAdd(QI(1), s.trailPercent))
    IN  IF QLt(currentRR, s.activationRR) THEN ActionNone
        ELSE IF position.Side = SideLong
             THEN IF QLe(newSL, position.LiquidationPrice)
                  THEN ActionNone ELSE ActionAdjustSL(newSL)
             ELSE IF QGe(newSL, position.LiquidationPrice)
                  THEN ActionNone ELSE ActionAdjustSL(newSL)

\* OnPriceUpdate tracking the last price instead of the highest
TrailingOnPriceUpdateLastPrice(s, position, currentPrice) ==
    LET tracked == MapPut(s.highestPrice, position.Symbol, currentPrice)
    IN  [s      |-> WithHighestPrice(s, tracked),
         action |-> TrailingAction(s, position, currentPrice,
                                   tracked[position.Symbol]),
         err    |-> Nil]

\* TrailingStrategy.OnPriceUpdate: the strategy afterwards, the action and
\* the error
TrailingOnPriceUpdate(s, position, currentPrice) ==
    LET tracked ==
            IF \/ position.Symbol \notin DOMAIN s.highestPrice
               \/ QGt(currentPrice, s.highestPrice[position.Symbol])
            THEN MapPut(s.highestPrice, position.Symbol, currentPrice)
            ELSE s.highestPrice
    IN  [s      |-> WithHighestPrice(s, tracked),
         action |-> TrailingAction(s, position, currentPrice,
                                   tracked[position.Symbol]),
         err    |-> Nil]

---------------------------------------------------------------------------
(* Inputs *)

Symbols == {"BTC-USDT", "ETH-USDT"}

\* A Side is a string: the two declared values and the zero value.
Sides == {SideLong, SideShort, ""}

EntryPrices == {QI(-45000), QI(0), QI(3000), QI(45000)}
StopLosses == {QI(0), QI(3100), QI(44500), QI(44900), QI(45000)}
Balances == {QI(-1000), QI(0), QI(1000)}
RiskPercents == {QI(-2), QI(0), Q(1, 10), QI(2), QI(100), QI(150)}
MaxLeverages == {-1, 0, 1, 2, 125, 200}
RRRatios == {QI(-1), Q(3, 2), QI(2), QI(40)}
Sizes == {QI(-1), QI(0), Q(1, 25), Q(1, 5), QI(2)}
CurrentPrices == {QI(0), QI(3000), QI(44000), QI(45000), QI(46000)}

\* strategy.PositionParams
PositionParams ==
    [Symbol : Symbols, Side : Sides, EntryPrice : EntryPrices,
     StopLoss : StopLosses, AccountBalance : Balances,
     RiskPercent : RiskPercents, MaxLeverage : MaxLeverages]

\* strategy.Position snapshots handed to the lifecycle hooks
Positions ==
    [Symbol : Symbols, Side : {SideLong, SideShort}, Size : {Q(1, 10)},
     EntryPrice : {QI(3000), QI(45000)}, MarkPrice : {QI(46000)}]

---------------------------------------------------------------------------
(* The callers: one call at a time, its result held until it is consumed *)

Idle == call = Nil

Init ==
    /\ strat = Nil
    /\ now = 1
    /\ call = Nil
    /\ ret = Nil
    /\ probe = Nil
    /\ outcomes = {}
    /\ goroutines = [g \in Goroutines |-> Nil]
    /\ history = [sym \in Symbols |-> Nil]

\* time passes
Tick ==
    /\ Idle
    /\ now < MaxTime
    /\ now' = now + 1
    /\ UNCHANGED <<strat, call, ret, probe, outcomes, goroutines, history>>

\* strat := riskratio.New(rr)
NewCall(Rs) ==
    /\ Idle
    /\ \E rr \in Rs : strat' = New(rr)
    /\ UNCHANGED <<now, call, ret, probe, outcomes, goroutines, history>>

\* plan, err := strat.CalculatePosition(ctx, params)
CalculatePositionCall(P) ==
    /\ Idle
    /\ strat # Nil
    /\ \E params \in P :
         \E r \in CalculatePosition(strat, params, now) :
            /\ call' = [op |-> "CalculatePosition", params |-> params]
            /\ ret' = r
            /\ outcomes' = IF params = probe
                           THEN outcomes \cup {<<strat.rrRatio, r>>}
                           ELSE outcomes
    /\ UNCHANGED <<strat, now, probe, goroutines, history>>

\* err := strat.OnPositionOpened(ctx, position)
OnPositionOpenedCall(Ps) ==
    /\ Idle
    /\ strat # Nil
    /\ \E position \in Ps :
         /\ call' = [op |-> "OnPositionOpened", position |-> position]
         /\ ret' = [err |-> OnPositionOpened(strat, position)]
    /\ UNCHANGED <<strat, now, probe, outcomes, goroutines, history>>

\* action, err := strat.OnPriceUpdate(ctx, position, currentPrice)
OnPriceUpdateCall(Ps, Cs) ==
    /\ Idle
    /\ strat # Nil
    /\ \E position \in Ps, currentPrice \in Cs :
         /\ call' = [op |-> "OnPriceUpdate", position |-> position,
                      currentPrice |-> currentPrice]
         /\ ret' = OnPriceUpdate(strat, position, currentPrice)
    /\ UNCHANGED <<strat, now, probe, outcomes, goroutines, history>>

\* close, reason := strat.ShouldClose(ctx, position, currentPrice)
ShouldCloseCall(Ps, Cs) ==
    /\ Idle
    /\ strat # Nil
    /\ \E position \in Ps, currentPrice \in Cs :
         /\ call' = [op |-> "ShouldClose", position |-> position,
                      currentPrice |-> currentPrice]
         /\ ret' = ShouldClose(strat, position, currentPrice)
    /\ UNCHANGED <<strat, now, probe, outcomes, goroutines, history>>

\* err := calc.ValidateInputs(side, entryPrice, stopLoss, riskPercent, equity)
ValidateInputsCall ==
    /\ Idle
    /\ \E side \in Sides, entryPrice \in EntryPrices, stopLoss \in StopLosses,
          riskPercent \in RiskPercents, accountEquity \in Balances :
         /\ call' = [op |-> "ValidateInputs", side |-> side,
                      entryPrice |-> entryPrice, stopLoss |-> stopLoss,
                      riskPercent |-> riskPercent,
                      accountEquity |-> accountEquity]
         /\ ret' = [err |-> ValidateInputs(side, entryPrice, stopLoss,
                                           riskPercent, accountEquity)]
    /\ UNCHANGED <<strat, now, probe, outcomes, goroutines, history>>

\* size := calc.CalculateSize(balance, riskPercent, entry, stopLoss, side)
CalculateSizeCall ==
    /\ Idle
    /\ \E balance \in Balances, riskPercent \in RiskPercents,
          entry \in EntryPrices, stopLoss \in StopLosses, side \in Sides :
         /\ call' = [op |-> "CalculateSize", balance |-> balance,
                      riskPercent |-> riskPercent, entry |-> entry,
                      stopLoss |-> stopLoss, side |-> side]
         /\ ret' = [size |-> CalculateSize(balance, riskPercent, entry,
                                           stopLoss, side)]
    /\ UNCHANGED <<strat, now, probe, outcomes, goroutines, history>>

\* leverage := calc.CalculateLeverage(size, price, balance, maxLeverage)
CalculateLeverageCall ==
    /\ Idle
    /\ \E size \in Sizes, price \in EntryPrices, balance \in Balances,
          maxLeverage \in MaxLeverages :
         \E leverage \in CalculateLeverage(size, price, balance, maxLeverage) :
            /\ call' = [op |-> "CalculateLeverage", size |-> size,
                         price |-> price, balance |-> balance,
                         maxLeverage |-> maxLeverage]
            /\ ret' = [leverage |-> leverage]
    /\ UNCHANGED <<strat, now, probe, outcomes, goroutines, history>>

\* err := calc.ValidateStopLoss(side, entry, stopLoss)
ValidateStopLossCall ==
    /\ Idle
    /\ \E side \in Sides, entry \in EntryPrices, stopLoss \in StopLosses :
         /\ call' = [op |-> "ValidateStopLoss", side |-> side,
                      entry |-> entry, stopLoss |-> stopLoss]
         /\ ret' = [err |-> ValidateStopLoss(side, entry, stopLoss)]
    /\ UNCHANGED <<strat, now, probe, outcomes, goroutines, history>>

\* err := calc.ValidatePriceLogic(side, entry, current)
ValidatePriceLogicCall ==
    /\ Idle
    /\ \E side \in Sides, entry \in EntryPrices, current \in CurrentPrices :
         /\ call' = [op |-> "ValidatePriceLogic", side |-> side,
                      entry |-> entry, current |-> current]
         /\ ret' = [err |-> ValidatePriceLogic(side, entry, current)]
    /\ UNCHANGED <<strat, now, probe, outcomes, goroutines, history>>

\* pct := calc.CalculatePnLPercent(side, entryPrice, markPrice)
CalculatePnLPercentCall ==
    /\ Idle
    /\ \E side \in Sides, entryPrice \in EntryPrices,
          markPrice \in CurrentPrices :
         /\ call' = [op |-> "CalculatePnLPercent", side |-> side,
                      entryPrice |-> entryPrice, markPrice |-> markPrice]
         /\ ret' = [percent |-> CalculatePnLPercent(side, entryPrice,
                                                    markPrice)]
    /\ UNCHANGED <<strat, now, probe, outcomes, goroutines, history>>

\* pct := calc.CalculateDistanceToPrice(side, currentPrice, targetPrice)
CalculateDistanceToPriceCall ==
    /\ Idle
    /\ \E side \in Sides, currentPrice \in EntryPrices,
          targetPrice \in CurrentPrices :
         /\ call' = [op |-> "CalculateDistanceToPrice", side |-> side,
                      currentPrice |-> currentPrice,
                      targetPrice |-> targetPrice]
         /\ ret' = [percent |-> CalculateDistanceToPrice(side, currentPrice,
                                                         targetPrice)]
    /\ UNCHANGED <<strat, now, probe, outcomes, goroutines, history>>

\* the caller takes the result
Return ==
    /\ ~Idle
    /\ call' = Nil
    /\ ret' = Nil
    /\ UNCHANGED <<strat, now, probe, outcomes, goroutines, history>>

Next ==
    \/ Tick
    \/ NewCall(RRRatios)
    \/ CalculatePositionCall(PositionParams)
    \/ OnPositionOpenedCall(Positions)
    \/ OnPriceUpdateCall(Positions, CurrentPrices)
    \/ ShouldCloseCall(Positions, CurrentPrices)
    \/ ValidateInputsCall
    \/ CalculateSizeCall
    \/ CalculateLeverageCall
    \/ ValidateStopLossCall
    \/ ValidatePriceLogicCall
    \/ CalculatePnLPercentCall
    \/ CalculateDistanceToPriceCall
    \/ Return

Spec == Init /\ [][Next]_vars

---------------------------------------------------------------------------
(* Repeated calls: the outcomes of every CalculatePosition call made with   *)
(* one chosen PositionParams are recorded, whatever is called in between.   *)

DetParams ==
    [Symbol : {"BTC-USDT"}, Side : {SideLong, SideShort},
     EntryPrice : {QI(3000), QI(45000)}, StopLoss : {QI(3100), QI(44500)},
     AccountBalance : {QI(1000)}, RiskPercent : {QI(2), QI(150)},
     MaxLeverage : {2, 125}]

DetPositions ==
    [Symbol : {"BTC-USDT"}, Side : {SideLong, SideShort}, Size : {Q(1, 10)},
     EntryPrice : {QI(45000)}, MarkPrice : {QI(46000)}]

DetPrices == {QI(44000), QI(46000)}

DetRRRatios == {Q(3, 2), QI(2)}

InitDet ==
    /\ strat = Nil
    /\ now = 1
    /\ call = Nil
    /\ ret = Nil
    /\ probe \in DetParams
    /\ outcomes = {}
    /\ goroutines = [g \in Goroutines |-> Nil]
    /\ history = [sym \in Symbols |-> Nil]

NextDet ==
    \/ Tick
    \/ NewCall(DetRRRatios)
    \/ CalculatePositionCall(DetParams)
    \/ OnPositionOpenedCall(DetPositions)
    \/ OnPriceUpdateCall(DetPositions, DetPrices)
    \/ ShouldCloseCall(DetPositions, DetPrices)
    \/ Return

SpecDet == InitDet /\ [][NextDet]_vars

---------------------------------------------------------------------------
(* The callers of a ConservativeStrategy; strat holds the instance. *)

\* The requests of the example and of the grid above, with risks at and
\* around the strategy's 1% cap
ConservativeParams ==
    [Symbol : Symbols, Side : Sides, EntryPrice : EntryPrices,
     StopLoss : StopLosses, AccountBalance : Balances,
     RiskPercent : RiskPercents \cup {Q(1, 2), QI(1), QI(3)},
     MaxLeverage : MaxLeverages]

\* strat := NewConservative()
NewConservativeCall ==
    /\ Idle
    /\ strat' = NewConservative
    /\ UNCHANGED <<now, call, ret, probe, outcomes, goroutines, history>>

\* plan, err := strat.CalculatePosition(ctx, params)
ConservativeCalculatePositionCall ==
    /\ Idle
    /\ strat # Nil
    /\ \E params \in ConservativeParams :
         \E r \in ConservativeCalculatePosition(strat, params) :
            /\ call' = [op |-> "ConservativeStrategy.CalculatePosition",
                         params |-> params]
            /\ ret' = r
    /\ UNCHANGED <<strat, now, probe, outcomes, goroutines, history>>

NextConservative ==
    \/ Tick
    \/ NewConservativeCall
    \/ ConservativeCalculatePositionCall
    \/ Return

SpecConservative == Init /\ [][NextConservative]_vars

---------------------------------------------------------------------------
(* Goroutines calling into one shared RiskRatioStrategy with no lock: the   *)
(* statements of their calls interleave in every order.                     *)

\* strategy.StrategyParams maps given along with a request
ConcStrategyParams == {[timeframe |-> "1h"]}

\* Requests that pass validation, requests with the stop on the wrong side
\* of the entry or on it, and a request with no balance
ConcParams ==
    [Symbol : {"BTC-USDT"}, Side : {SideLong, SideShort},
     EntryPrice : {QI(3000)}, StopLoss : {QI(2900), QI(3000), QI(3100)},
     AccountBalance : {QI(1000)}, RiskPercent : {QI(2)},
     MaxLeverage : {125}, Params : ConcStrategyParams]
    \cup
    [Symbol : {"BTC-USDT"}, Side : {SideLong},
     EntryPrice : {QI(3000)}, StopLoss : {QI(2900)},
     AccountBalance : {QI(0)}, RiskPercent : {QI(2)},
     MaxLeverage : {125}, Params : ConcStrategyParams]

ConcPositions ==
    [Symbol : {"BTC-USDT"}, Side : {SideLong}, Size : {Q(1, 10)},
     EntryPrice : {QI(3000)}, MarkPrice : {QI(3100)}]

ConcPrices == {QI(3200)}

InitConcurrent ==
    /\ strat \in {New(rr) : rr \in DetRRRatios}
    /\ now = 1
    /\ call = Nil
    /\ ret = Nil
    /\ probe = Nil
    /\ outcomes = {}
    /\ goroutines = [g \in Goroutines |-> Nil]
    /\ history = [sym \in Symbols |-> Nil]

\* goroutine g is at statement pc of a call of op
At(g, ops, pc) ==
    /\ goroutines[g] # Nil
    /\ goroutines[g].op \in ops
    /\ goroutines[g].pc = pc

\* goroutines with goroutine g running frame
Running(g, frame) ==
    [h \in Goroutines |-> IF h = g THEN frame ELSE goroutines[h]]

\* goroutine g executes one statement with one of the outcomes outs
Run(g, outs) ==
    /\ \E o \in outs :
         /\ strat' = o.s
         /\ goroutines' = Running(g, o.f)
    /\ UNCHANGED <<now, call, ret, probe, outcomes, history>>

\* go strat.CalculatePosition(ctx, params)
GoCalculatePosition ==
    /\ \E g \in Goroutines, params \in ConcParams :
         /\ goroutines[g] = Nil
         /\ goroutines' = Running(g, NewFrame("CalculatePosition",
                                              [params |-> params],
                                              "ValidateInputs"))
    /\ UNCHANGED <<strat, now, call, ret, probe, outcomes, history>>

\* go strat.OnPositionOpened(ctx, position)
GoOnPositionOpened ==
    /\ \E g \in Goroutines, position \in ConcPositions :
         /\ goroutines[g] = Nil
         /\ goroutines' = Running(g, NewFrame("OnPositionOpened",
                                              [position |-> position],
                                              "body"))
    /\ UNCHANGED <<strat, now, call, ret, probe, outcomes, history>>

\* go strat.OnPriceUpdate(ctx, position, currentPrice)
GoOnPriceUpdate ==
    /\ \E g \in Goroutines, position \in ConcPositions,
          currentPrice \in ConcPrices :
         /\ goroutines[g] = Nil
         /\ goroutines' = Running(g, NewFrame("OnPriceUpdate",
                                              [position |-> position,
                                               currentPrice |-> currentPrice],
                                              "body"))
    /\ UNCHANGED <<strat, now, call, ret, probe, outcomes, history>>

\* go strat.ShouldClose(ctx, position, currentPrice)
GoShouldClose ==
    /\ \E g \in Goroutines, position \in ConcPositions,
          currentPrice \in ConcPrices :
         /\ goroutines[g] = Nil
         /\ goroutines' = Running(g, NewFrame("ShouldClose",
                                              [position |-> position,
                                               currentPrice |-> currentPrice],
                                              "body"))
    /\ UNCHANGED <<strat, now, call, ret, probe, outcomes, history>>

\* go strat.Name()
GoName ==
    /\ \E g \in Goroutines :
         /\ goroutines[g] = Nil
         /\ goroutines' = Running(g, NewFrame("Name", <<>>, "body"))
    /\ UNCHANGED <<strat, now, call, ret, probe, outcomes, history>>

\* go strat.Description()
GoDescription ==
    /\ \E g \in Goroutines :
         /\ goroutines[g] = Nil
         /\ goroutines' = Running(g, NewFrame("Description", <<>>, "body"))
    /\ UNCHANGED <<strat, now, call, ret, probe, outcomes, history>>

\* go strat.ValidateParams(params)
GoValidateParams ==
    /\ \E g \in Goroutines, params \in ConcStrategyParams :
         /\ goroutines[g] = Nil
         /\ goroutines' = Running(g, NewFrame("ValidateParams",
                                              [params |-> params], "body"))
    /\ UNCHANGED <<strat, now, call, ret, probe, outcomes, history>>

\* the operations whose body is one statement
Hooks ==
    {"Name", "Description", "ValidateParams", "OnPositionOpened",
     "OnPriceUpdate", "ShouldClose"}

ValidateInputsStep ==
    \E g \in Goroutines :
        /\ At(g, {"CalculatePosition"}, "ValidateInputs")
        /\ Run(g, StepValidateInputs(strat, goroutines[g]))

CalculateSizeStep ==
    \E g \in Goroutines :
        /\ At(g, {"CalculatePosition"}, "CalculateSize")
        /\ Run(g, StepCalculateSize(strat, goroutines[g]))

CalculateLeverageStep ==
    \E g \in Goroutines :
        /\ At(g, {"CalculatePosition"}, "CalculateLeverage")
        /\ Run(g, StepCalculateLeverage(strat, goroutines[g]))

CalculateRRTakeProfitStep ==
    \E g \in Goroutines :
        /\ At(g, {"CalculatePosition"}, "CalculateRRTakeProfit")
        /\ Run(g, StepCalculateRRTakeProfit(strat, goroutines[g]))

BuildPlanStep ==
    \E g \in Goroutines :
        /\ At(g, {"CalculatePosition"}, "plan")
        /\ Run(g, StepBuildPlan(strat, goroutines[g], now))

HookStep ==
    \E g \in Goroutines :
        /\ At(g, Hooks, "body")
        /\ Run(g, StepHook(strat, goroutines[g]))

\* the caller running in goroutine g takes the result
GoReturn ==
    \E g \in Goroutines :
        /\ At(g, Hooks \cup {"CalculatePosition"}, "done")
        /\ goroutines' = Running(g, Nil)
        /\ UNCHANGED <<strat, now, call, ret, probe, outcomes, history>>

NextConcurrent ==
    \/ Tick
    \/ GoCalculatePosition
    \/ GoOnPositionOpened
    \/ GoOnPriceUpdate
    \/ GoShouldClose
    \/ GoName
    \/ GoDescription
    \/ GoValidateParams
    \/ ValidateInputsStep
    \/ CalculateSizeStep
    \/ CalculateLeverageStep
    \/ CalculateRRTakeProfitStep
    \/ BuildPlanStep
    \/ HookStep
    \/ GoReturn

SpecConcurrent == InitConcurrent /\ [][NextConcurrent]_vars

---------------------------------------------------------------------------
(* The callers of a MultiTPStrategy; strat holds the instance. *)

\* a multitp.TPLevel
TPLevel(rr, percentage) == [RRRatio |-> QI(rr), Percentage |-> QI(percentage)]

\* The levels of the guide, and levels that add up to less and to more
TPLevelLists ==
    { <<TPLevel(1, 30), TPLevel(2, 40), TPLevel(3, 30)>>,
      <<TPLevel(1, 50), TPLevel(2, 50)>>,
      <<TPLevel(1, 50), TPLevel(2, 30)>>,
      <<TPLevel(1, 60), TPLevel(2, 60)>>,
      <<TPLevel(2, 100)>>,
      <<>> }

MultiTPParams ==
    [Symbol : {"BTC-USDT"}, Side : Sides,
     EntryPrice : {QI(3000), QI(45000)}, StopLoss : {QI(3100), QI(44500)},
     AccountBalance : {QI(1000)}, RiskPercent : {QI(2), QI(150)},
     MaxLeverage : {125}]

\* strat := multitp.New(levels)
NewMultiTPCall ==
    /\ Idle
    /\ \E tpLevels \in TPLevelLists : strat' = NewMultiTP(tpLevels)
    /\ UNCHANGED <<now, call, ret, probe, outcomes, goroutines, history>>

\* err := strat.ValidateParams(params)
MultiTPValidateParamsCall ==
    /\ Idle
    /\ strat # Nil
    /\ \E params \in ConcStrategyParams :
         /\ call' = [op |-> "MultiTPStrategy.ValidateParams",
                      params |-> params]
         /\ ret' = [err |-> MultiTPValidateParams(strat, params)]
    /\ UNCHANGED <<strat, now, probe, outcomes, goroutines, history>>

\* plan, err := strat.CalculatePosition(ctx, params)
MultiTPCalculatePositionCall ==
    /\ Idle
    /\ strat # Nil
    /\ \E params \in MultiTPParams :
         \E r \in MultiTPCalculatePosition(strat, params, now) :
            /\ call' = [op |-> "MultiTPStrategy.CalculatePosition",
                         params |-> params]
            /\ ret' = r
    /\ UNCHANGED <<strat, now, probe, outcomes, goroutines, history>>

NextMultiTP ==
    \/ Tick
    \/ NewMultiTPCall
    \/ MultiTPValidateParamsCall
    \/ MultiTPCalculatePositionCall
    \/ Return

SpecMultiTP == Init /\ [][NextMultiTP]_vars

---------------------------------------------------------------------------
(* The caller of a TrailingStrategy: one call at a time, so the calls for   *)
(* one symbol never overlap; strat holds the instance.  history[sym] is Nil *)
(* until a position is opened for sym, and then holds the position handed   *)
(* to OnPositionOpened, the prices of the OnPriceUpdate calls made for it   *)
(* since, and the NewPrice of every AdjustSL action they returned.          *)

\* trailing.New(2.0, 0.01, 1.0) of the guide
TrailingConfigs ==
    {[rrRatio |-> QI(2), trailPercent |-> Q(1, 100), activationRR |-> QI(1)]}

\* Position snapshots of the broker: a Long and a Short with the liquidation
\* price on the loss side, and a Long liquidated at its entry
TrailingPositions ==
    { [Symbol |-> sym, Side |-> p.side, Size |-> Q(1, 10),
       EntryPrice |-> QI(100), MarkPrice |-> QI(100),
       LiquidationPrice |-> p.liq] :
      sym \in Symbols,
      p \in { [side |-> SideLong, liq |-> QI(90)],
              [side |-> SideShort, liq |-> QI(110)],
              [side |-> SideLong, liq |-> QI(100)] } }

TrailingPrices == {QI(80), QI(105), QI(110), QI(120)}

\* history with the record of sym replaced
Recorded(sym, record) ==
    [k \in Symbols |-> IF k = sym THEN record ELSE history[k]]

\* strat := trailing.New(rrRatio, trailPercent, activationRR)
NewTrailingCall ==
    /\ Idle
    /\ strat = Nil
    /\ \E c \in TrailingConfigs :
         strat' = NewTrailing(c.rrRatio, c.trailPercent, c.activationRR)
    /\ UNCHANGED <<now, call, ret, probe, outcomes, goroutines, history>>

\* err := strat.OnPositionOpened(ctx, position)
TrailingOnPositionOpenedCall ==
    /\ Idle
    /\ strat # Nil
    /\ \E position \in TrailingPositions :
         LET r == TrailingOnPositionOpened(strat, position)
         IN  /\ strat' = r.s
             /\ call' = [op |-> "TrailingStrategy.OnPositionOpened",
                         position |-> position]
             /\ ret' = [err |-> r.err]
             /\ history' = Recorded(position.Symbol,
                                    [position |-> position,
                                     prices   |-> <<>>,
                                     adjusted |-> <<>>])
    /\ UNCHANGED <<now, probe, outcomes, goroutines>>

\* action, err := strat.OnPriceUpdate(ctx, position, currentPrice), for the
\* open position of a symbol
TrailingOnPriceUpdateCall ==
    /\ Idle
    /\ strat # Nil
    /\ \E sym \in Symbols, currentPrice \in TrailingPrices :
         /\ history[sym] # Nil
         /\ Len(history[sym].prices) < MaxUpdates
         /\ LET position == history[sym].position
                r == TrailingOnPriceUpdate(strat, position, currentPrice)
            IN  /\ strat' = r.s
                /\ call' = [op |-> "TrailingStrategy.OnPriceUpdate",
                            position |-> position,
                            currentPrice |-> currentPrice]
                /\ ret' = [action |-> r.action, err |-> r.err]
                /\ history' = Recorded(sym,
                      [position |-> position,
                       prices   |-> Append(history[sym].prices, currentPrice),
                       adjusted |->
                           IF r.action.Type = ActionTypeAdjustSL
                           THEN Append(history[sym].adjusted,
                                       r.action.NewPrice)
                           ELSE history[sym].adjusted])
    /\ UNCHANGED <<now, probe, outcomes, goroutines>>

\* action, err := strat.OnPriceUpdate(ctx, position, currentPrice), for a
\* position the strategy was never told about
TrailingOnPriceUpdateUnopenedCall ==
    /\ Idle
    /\ strat # Nil
    /\ \E position \in TrailingPositions, currentPrice \in TrailingPrices :
         /\ history[position.Symbol] = Nil
         /\ LET r == TrailingOnPriceUpdate(strat, position, currentPrice)
            IN  /\ strat' = r.s
                /\ call' = [op |-> "TrailingStrategy.OnPriceUpdate",
                            position |-> position,
                            currentPrice |-> currentPrice]
                /\ ret' = [action |-> r.action, err |-> r.err]
    /\ UNCHANGED <<now, probe, outcomes, goroutines, history>>

NextTrailing ==
    \/ NewTrailingCall
    \/ TrailingOnPositionOpenedCall
    \/ TrailingOnPriceUpdateCall
    \/ TrailingOnPriceUpdateUnopenedCall
    \/ Return

SpecTrailing == Init /\ [][NextTrailing]_vars

---------------------------------------------------------------------------
(* Properties *)

\* The call op has returned and its result has not been consumed yet
Returned(op) == call # Nil /\ call.op = op

PlanFields ==
    {"Symbol", "Side", "Size", "EntryPrice", "Leverage", "StopLoss",
     "TakeProfits", "RiskAmount", "RiskPercent", "NotionalValue",
     "StrategyName", "Timestamp"}

\* A float64 field holding a finite value other than the zero value
IsSet(a) == IsFinite(a) /\ a.n # 0

C2_ValidateInputsIff ==
    Returned("ValidateInputs") =>
        LET zero == QI(0)
        IN  (ret.err # Nil) <=>
               \/ ~QGt(call.entryPrice, zero)
               \/ ~QGt(call.stopLoss, zero)
               \/ ~QGt(call.riskPercent, zero)
               \/ QLt(QI(100), call.riskPercent)
               \/ ~QGt(call.accountEquity, zero)
               \/ call.side = "LONG" /\ ~QLt(call.stopLoss, call.entryPrice)
               \/ call.side = "SHORT" /\ ~QGt(call.stopLoss, call.entryPrice)

\* C2 witness: riskPercent = 100 is accepted.
C2_Witness ==
    /\ Returned("ValidateInputs")
    /\ call.riskPercent = QI(100)
    /\ ret.err = Nil

\* C3: every returned plan has 1 <= Leverage <= params.MaxLeverage, whatever
\* integer the caller passes as MaxLeverage.
C3_LeverageInRange ==
    Returned("CalculatePosition") /\ ret.plan # Nil =>
        /\ 1 <= ret.plan.Leverage
        /\ ret.plan.Leverage <= call.params.MaxLeverage

\* (balance * riskPercent / 100) / priceRisk, with priceRisk = entry - stopLoss
\* for Long and stopLoss - entry for Short
SizeFormula(balance, riskPercent, entry, stopLoss, side) ==
    LET num == Q(balance.n * riskPercent.n, balance.d * riskPercent.d * 100)
        den == IF side = "LONG"
               THEN Q(entry.n * stopLoss.d - stopLoss.n * entry.d,
                      entry.d * stopLoss.d)
               ELSE Q(stopLoss.n * entry.d - entry.n * stopLoss.d,
                      entry.d * stopLoss.d)
    IN  Q(num.n * den.d, num.d * den.n)

\* C4: on Long and Short inputs that pass ValidateInputs, CalculateSize
\* returns (balance * riskPercent / 100) / (entry - stopLoss) for Long and
\* (balance * riskPercent / 100) / (stopLoss - entry) for Short, and the
\* Size of a returned plan is that value.
C4_SizeFormula ==
    /\ Returned("CalculateSize") /\ call.side \in {"LONG", "SHORT"}
         /\ ValidateInputs(call.side, call.entry, call.stopLoss,
                           call.riskPercent, call.balance) = Nil
         => ret.size = SizeFormula(call.balance, call.riskPercent, call.entry,
                                   call.stopLoss, call.side)
    /\ Returned("CalculatePosition") /\ ret.plan # Nil
         /\ call.params.Side \in {"LONG", "SHORT"}
         => ret.plan.Size = SizeFormula(call.params.AccountBalance,
                                        call.params.RiskPercent,
                                        call.params.EntryPrice,
                                        call.params.StopLoss,
                                        call.params.Side)

\* C4 witness: balance 1000, risk 2, entry 45000, stop loss 44500, Long give
\* a plan of size 0.04.
C4_Witness ==
    /\ Returned("CalculatePosition")
    /\ call.params.AccountBalance = QI(1000)
    /\ call.params.RiskPercent = QI(2)
    /\ call.params.EntryPrice = QI(45000)
    /\ call.params.StopLoss = QI(44500)
    /\ call.params.Side = SideLong
    /\ ret.plan # Nil
    /\ ret.plan.Size = Q(4, 100)

\* C5: whenever ValidateInputs passes, CalculateSize on the same arguments
\* is strictly positive, and every returned plan has Size > 0 and
\* NotionalValue > 0.
C5_SizePositive ==
    /\ Returned("CalculateSize")
         /\ ValidateInputs(call.side, call.entry, call.stopLoss,
                           call.riskPercent, call.balance) = Nil
         => QGt(ret.size, QI(0))
    /\ Returned("CalculatePosition") /\ ret.plan # Nil
         => QGt(ret.plan.Size, QI(0)) /\ QGt(ret.plan.NotionalValue, QI(0))

\* The least integer c with c >= n/d, for d > 0
CeilOf(a) == CHOOSE c \in -1000..1000 : (c - 1) * a.d < a.n /\ a.n <= c * a.d

\* C6: for size > 0, price > 0, balance > 0 and maxLeverage >= 1,
\* CalculateLeverage returns ceil(size * price / balance) clamped to
\* [1, maxLeverage]: maxLeverage when the ceiling is above it, 1 when the
\* ceiling is below 1, the ceiling itself otherwise.
C6_LeverageClamp ==
    Returned("CalculateLeverage")
      /\ call.size.n > 0 /\ call.price.n > 0 /\ call.balance.n > 0
      /\ call.maxLeverage >= 1
      => LET c == CeilOf(Q(call.size.n * call.price.n * call.balance.d,
                           call.size.d * call.price.d * call.balance.n))
         IN  ret.leverage = IF c > call.maxLeverage THEN call.maxLeverage
                            ELSE IF c < 1 THEN 1
                            ELSE c

\* C6 witness: an exact integer ratio (size 0.2, price 45000, balance 1000:
\* 9) is returned as it is, not rounded up further.
C6_Witness ==
    /\ Returned("CalculateLeverage")
    /\ call.size = Q(2, 10) /\ call.price = QI(45000)
    /\ call.balance = QI(1000) /\ call.maxLeverage = 125
    /\ ret.leverage = 9

\* C7 as claimed: every returned plan has
\* Leverage * AccountBalance >= NotionalValue.  It is stated for the calls
\* with MaxLeverage >= 1, which are among the calls the claim covers.
C7_NeverUnderMargined ==
    Returned("CalculatePosition") /\ ret.plan # Nil
      /\ call.params.MaxLeverage >= 1 =>
        QGe(QMul(QI(ret.plan.Leverage), call.params.AccountBalance),
            ret.plan.NotionalValue)

\* C7 as amended: every returned plan whose notional value does not exceed
\* MaxLeverage * AccountBalance has Leverage * AccountBalance >= NotionalValue.
C7_MarginedWithinCeiling ==
    Returned("CalculatePosition") /\ ret.plan # Nil
      /\ QLe(ret.plan.NotionalValue,
             QMul(QI(call.params.MaxLeverage), call.params.AccountBalance))
      => QGe(QMul(QI(ret.plan.Leverage), call.params.AccountBalance),
             ret.plan.NotionalValue)

\* C7 witness: a plan below the caller's ceiling whose margin covers a
\* notional that is no multiple of the balance (notional 1800, balance 1000,
\* leverage 2).
C7_Witness ==
    /\ Returned("CalculatePosition")
    /\ ret.plan # Nil
    /\ ret.plan.NotionalValue = QI(1800)
    /\ call.params.AccountBalance = QI(1000)
    /\ call.params.MaxLeverage = 125
    /\ ret.plan.Leverage = 2

\* |entry - stopLoss| * rr
RewardDistance(entry, stopLoss, rr) ==
    LET diff == entry.n * stopLoss.d - stopLoss.n * entry.d
    IN  Q((IF diff < 0 THEN -diff ELSE diff) * rr.n, entry.d * stopLoss.d * rr.d)

\* C8: the take profit of a plan returned by a strategy built with New(rr)
\* is EntryPrice + |EntryPrice - StopLoss| * rr for Long and
\* EntryPrice - |EntryPrice - StopLoss| * rr for Short.
C8_TakeProfitFormula ==
    Returned("CalculatePosition") /\ ret.plan # Nil
      /\ call.params.Side \in {"LONG", "SHORT"}
      => LET e == call.params.EntryPrice
             r == RewardDistance(e, call.params.StopLoss, strat.rrRatio)
         IN  /\ Len(ret.plan.TakeProfits) = 1
             /\ ret.plan.TakeProfits[1].Price =
                   IF call.params.Side = "LONG"
                   THEN Q(e.n * r.d + r.n * e.d, e.d * r.d)
                   ELSE Q(e.n * r.d - r.n * e.d, e.d * r.d)

\* C8 witness: Short, entry 3000, stop loss 3100, rr 2 give the take profit
\* 2800.
C8_Witness ==
    /\ Returned("CalculatePosition")
    /\ strat.rrRatio = QI(2)
    /\ call.params.Side = SideShort
    /\ call.params.EntryPrice = QI(3000)
    /\ call.params.StopLoss = QI(3100)
    /\ ret.plan # Nil
    /\ ret.plan.TakeProfits[1].Price = QI(2800)

\* C9: all calls made with the same PositionParams on strategies built with
\* the same rr, whatever was called in between, return the same outcome:
\* all errors or all plans, the plans equal in every field but Timestamp.
C9_Deterministic ==
    \A o1, o2 \in outcomes :
        o1[1] = o2[1] =>
            /\ (o1[2].plan = Nil) = (o2[2].plan = Nil)
            /\ (o1[2].err = Nil) = (o2[2].err = Nil)
            /\ o1[2].err = o2[2].err
            /\ o1[2].plan # Nil /\ o2[2].plan # Nil =>
                  \A f \in (DOMAIN o1[2].plan \cup DOMAIN o2[2].plan)
                              \ {"Timestamp"} :
                      /\ f \in DOMAIN o1[2].plan
                      /\ f \in DOMAIN o2[2].plan
                      /\ o1[2].plan[f] = o2[2].plan[f]

\* C9 witness: the same params were given twice, at different times, to
\* strategies of the same rr, and a plan came back both times.
C9_Witness ==
    \E o1, o2 \in outcomes :
        /\ o1[1] = o2[1]
        /\ o1[2].plan # Nil /\ o2[2].plan # Nil
        /\ o1[2].plan.Timestamp # o2[2].plan.Timestamp

\* C10: every OnPriceUpdate returns a non-nil action of type None and a nil
\* error, every ShouldClose returns (false, ""), every OnPositionOpened
\* returns nil.
C10_HooksAreNoOps ==
    /\ Returned("OnPriceUpdate") =>
          /\ ret.action # Nil
          /\ ret.action.Type = "NONE"
          /\ ret.err = Nil
    /\ Returned("ShouldClose") => ret.close = FALSE /\ ret.reason = ""
    /\ Returned("OnPositionOpened") => ret.err = Nil

\* C10 witness: a price update above the entry price of a Long position
\* came back with no action.
C10_Witness ==
    /\ Returned("OnPriceUpdate")
    /\ call.position.Side = SideLong
    /\ QGt(call.currentPrice, call.position.EntryPrice)
    /\ ret.action.Type = ActionTypeNone

\* C11: every plan CalculatePosition returns has one stop-loss level, of type
\* Fixed, and exactly one take-profit level, of type Limit and with
\* Percentage 100, so the percentages of its take profits sum to 100.
C11_OneStopOneTakeProfit ==
    Returned("CalculatePosition") /\ ret.plan # Nil =>
        /\ ret.plan.StopLoss # Nil
        /\ DOMAIN ret.plan.StopLoss = {"Price", "Type"}
        /\ ret.plan.StopLoss.Type = "FIXED"
        /\ Len(ret.plan.TakeProfits) = 1
        /\ ret.plan.TakeProfits[1].Type = "LIMIT"
        /\ ret.plan.TakeProfits[1].Percentage = QI(100)

\* C11 witness: a Long plan came back with its single take profit closing
\* the whole position.
C11_Witness ==
    /\ Returned("CalculatePosition")
    /\ call.params.Side = SideLong
    /\ ret.plan # Nil
    /\ Len(ret.plan.TakeProfits) = 1
    /\ ret.plan.TakeProfits[1].Percentage = QI(100)
    /\ ret.plan.StopLoss.Type = StopLossTypeFixed

\* C12: every plan CalculatePosition returns carries the caller's Symbol,
\* Side, EntryPrice and RiskPercent unchanged, has the caller's StopLoss as
\* its stop-loss price, and is named "risk-ratio", which is what Name returns.
C12_InputsPassedThrough ==
    Returned("CalculatePosition") /\ ret.plan # Nil =>
        /\ ret.plan.Symbol = call.params.Symbol
        /\ ret.plan.Side = call.params.Side
        /\ ret.plan.EntryPrice = call.params.EntryPrice
        /\ ret.plan.RiskPercent = call.params.RiskPercent
        /\ ret.plan.StopLoss.Price = call.params.StopLoss
        /\ ret.plan.StrategyName = "risk-ratio"
        /\ ret.plan.StrategyName = Name

\* C12 witness: a plan came back for a side that is neither Long nor Short,
\* which the calculator treated as Short, and the plan still names the side
\* the caller gave.
C12_Witness ==
    /\ Returned("CalculatePosition")
    /\ call.params.Side = ""
    /\ call.params.Symbol = "ETH-USDT"
    /\ ret.plan # Nil
    /\ ret.plan.Side = ""
    /\ ret.plan.Symbol = "ETH-USDT"

\* C13: in every plan CalculatePosition returns, RiskAmount is
\* AccountBalance * RiskPercent / 100, NotionalValue is Size * EntryPrice,
\* Size * |EntryPrice - StopLoss.Price| is RiskAmount, the nominal expected
\* PnL of an exit at the stop is -RiskAmount, and the nominal expected PnL of
\* an exit at the take profit is rr * RiskAmount.
C13_RiskMetricsConsistent ==
    Returned("CalculatePosition") /\ ret.plan # Nil =>
        LET plan == ret.plan
            atStop == CalculateExpectedPnL(plan.Side, plan.EntryPrice,
                                           plan.StopLoss.Price, plan.Size)
            atTakeProfit == CalculateExpectedPnL(plan.Side, plan.EntryPrice,
                                                 plan.TakeProfits[1].Price,
                                                 plan.Size)
        IN  /\ IsFinite(plan.RiskAmount)
            /\ QEq(QMul(plan.RiskAmount, QI(100)),
                   QMul(call.params.AccountBalance, call.params.RiskPercent))
            /\ QEq(plan.NotionalValue, QMul(plan.Size, plan.EntryPrice))
            /\ QEq(QMul(plan.Size,
                        MathAbs(QSub(plan.EntryPrice, plan.StopLoss.Price))),
                   plan.RiskAmount)
            /\ QEq(atStop.nominal, QSub(QI(0), plan.RiskAmount))
            /\ QEq(atTakeProfit.nominal, QMul(strat.rrRatio, plan.RiskAmount))

\* C13 witness: the Short plan for entry 3000, stop 3100, balance 1000 and
\* 2% risk at rr 2 came back with risk amount 20, size 0.2 and notional 600.
C13_Witness ==
    /\ Returned("CalculatePosition")
    /\ strat.rrRatio = QI(2)
    /\ call.params.Side = SideShort
    /\ call.params.EntryPrice = QI(3000)
    /\ call.params.StopLoss = QI(3100)
    /\ call.params.AccountBalance = QI(1000)
    /\ call.params.RiskPercent = QI(2)
    /\ ret.plan # Nil
    /\ ret.plan.RiskAmount = QI(20)
    /\ ret.plan.Size = Q(1, 5)
    /\ ret.plan.NotionalValue = QI(600)

\* C14: every plan ConservativeStrategy.CalculatePosition returns has
\* RiskPercent = min(params.RiskPercent, 1), and its RiskAmount and Size are
\* those of the capped risk: RiskAmount = AccountBalance * RiskPercent / 100
\* and Size is that amount divided by the distance to the stop.
C14_RiskCappedAtOnePercent ==
    Returned("ConservativeStrategy.CalculatePosition") /\ ret.plan # Nil =>
        LET p == call.params
            capped == IF QLt(QI(1), p.RiskPercent) THEN QI(1)
                      ELSE p.RiskPercent
            priceRisk == IF p.Side = "LONG"
                         THEN QSub(p.EntryPrice, p.StopLoss)
                         ELSE QSub(p.StopLoss, p.EntryPrice)
        IN  /\ ret.plan.RiskPercent = capped
            /\ QLe(ret.plan.RiskPercent, QI(1))
            /\ QEq(QMul(ret.plan.RiskAmount, QI(100)),
                   QMul(p.AccountBalance, capped))
            /\ ret.plan.Size =
                  QDiv(QDiv(QMul(p.AccountBalance, capped), QI(100)), priceRisk)

\* C14 witness: the request of the example (Long 45000/44500, balance 1000,
\* 3% risk asked) came back with 1% risk, risk amount 10 and size 0.02.
C14_Witness ==
    /\ Returned("ConservativeStrategy.CalculatePosition")
    /\ call.params.Side = SideLong
    /\ call.params.EntryPrice = QI(45000)
    /\ call.params.StopLoss = QI(44500)
    /\ call.params.AccountBalance = QI(1000)
    /\ call.params.RiskPercent = QI(3)
    /\ ret.plan # Nil
    /\ ret.plan.RiskPercent = QI(1)
    /\ ret.plan.RiskAmount = QI(10)
    /\ ret.plan.Size = Q(1, 50)

\* C15: every plan CalculatePosition returns has a Leverage no greater than
\* the ceiling the strategy's own calculator was built with, 125, also when
\* the caller asks for a MaxLeverage above it.
C15_LeverageWithinStrategyCeiling ==
    Returned("CalculatePosition") /\ ret.plan # Nil =>
        /\ strat.calculator.maxLeverage = 125
        /\ ret.plan.Leverage <= strat.calculator.maxLeverage

\* The Calculator calls of CalculatePosition, in the order of its code
CalculatePositionOrder ==
    <<"ValidateInputs", "CalculateSize", "CalculateLeverage",
      "CalculateRRTakeProfit">>

\* C16: at every point of every CalculatePosition call, the Calculator calls
\* made so far are a prefix of ValidateInputs, CalculateSize,
\* CalculateLeverage, CalculateRRTakeProfit; the last three are made only
\* after ValidateInputs returned nil, and on the arguments it was given; so
\* CalculateSize is called with a price risk above zero and
\* CalculateLeverage with a balance above zero.
C16_ValidateBeforeCompute ==
    \A g \in Goroutines :
        goroutines[g] # Nil /\ goroutines[g].op = "CalculatePosition" =>
            LET calls == goroutines[g].calls
                v == calls[1].args
            IN  /\ Len(calls) <= 4
                /\ \A i \in 1 .. Len(calls) :
                      calls[i].fn = CalculatePositionOrder[i]
                /\ Len(calls) >= 2 =>
                      LET c == calls[2].args
                          priceRisk == IF c[5] = "LONG" THEN QSub(c[3], c[4])
                                       ELSE QSub(c[4], c[3])
                      IN  /\ calls[1].result = Nil
                          /\ c = <<v[5], v[4], v[2], v[3], v[1]>>
                          /\ QGt(priceRisk, QI(0))
                /\ Len(calls) >= 3 =>
                      LET c == calls[3].args
                      IN  /\ c[1] = calls[2].result
                          /\ c[2] = v[2]
                          /\ c[3] = v[5]
                          /\ QGt(c[3], QI(0))
                /\ Len(calls) >= 4 =>
                      LET c == calls[4].args
                      IN  /\ c[1] = v[2]
                          /\ c[2] = v[3]
                          /\ c[4] = v[1]

\* C16 witness: a call has made all four Calculator calls, while another
\* call ended at its validation with an error and made no other.
C16_Witness ==
    \E g, h \in Goroutines :
        /\ At(g, {"CalculatePosition"}, "plan")
        /\ Len(goroutines[g].calls) = 4
        /\ goroutines[g].calls[4].fn = "CalculateRRTakeProfit"
        /\ At(h, {"CalculatePosition"}, "done")
        /\ goroutines[h].result.err # Nil
        /\ Len(goroutines[h].calls) = 1

\* C17: ValidateStopLoss returns an error exactly when the side is Long and
\* stopLoss >= entry, or the side is Short and stopLoss <= entry; a stop at
\* the entry price is an error for Long and for Short.
C17_ValidateStopLossIff ==
    Returned("ValidateStopLoss") =>
        /\ (ret.err # Nil) <=>
               \/ call.side = "LONG" /\ ~QLt(call.stopLoss, call.entry)
               \/ call.side = "SHORT" /\ ~QGt(call.stopLoss, call.entry)
        /\ call.side \in {"LONG", "SHORT"} /\ call.stopLoss = call.entry
              => ret.err # Nil

\* C17 witness: a Long stop at the entry price was rejected.
C17_Witness ==
    /\ Returned("ValidateStopLoss")
    /\ call.side = SideLong
    /\ call.entry = QI(45000)
    /\ call.stopLoss = QI(45000)
    /\ ret.err # Nil

\* C18: ValidatePriceLogic returns an error exactly when the side is Long
\* and entry >= current, or the side is Short and entry <= current; an entry
\* at the current price is an error for both sides; a Long entry below and
\* a Short entry above the current price return nil.
C18_ValidatePriceLogicIff ==
    Returned("ValidatePriceLogic") =>
        /\ (ret.err # Nil) <=>
               \/ call.side = "LONG" /\ ~QLt(call.entry, call.current)
               \/ call.side = "SHORT" /\ ~QGt(call.entry, call.current)
        /\ call.side \in {"LONG", "SHORT"} /\ call.entry = call.current
              => ret.err # Nil
        /\ call.side = "LONG" /\ QLt(call.entry, call.current)
              => ret.err = Nil
        /\ call.side = "SHORT" /\ QGt(call.entry, call.current)
              => ret.err = Nil

\* C18 witness: a Short entry at the current price was rejected.
C18_Witness ==
    /\ Returned("ValidatePriceLogic")
    /\ call.side = SideShort
    /\ call.entry = QI(3000)
    /\ call.current = QI(3000)
    /\ ret.err # Nil

\* C19: for entry > 0 CalculatePnLPercent returns (mark - entry) / entry * 100
\* for Long and (entry - mark) / entry * 100 for Short, and for entry <= 0
\* it returns 0 whatever the side and mark; CalculateDistanceToPrice does the
\* same with current as the base and target in the place of mark; neither
\* result comes from a division by a base that is not positive, so both are
\* always finite.
C19_PercentOfPositiveBase ==
    /\ Returned("CalculatePnLPercent") =>
          LET entry == call.entryPrice
              mark == call.markPrice
          IN  /\ IsFinite(ret.percent)
              /\ ~QGt(entry, QI(0)) => ret.percent = QI(0)
              /\ QGt(entry, QI(0)) /\ call.side = "LONG" =>
                    QEq(QMul(ret.percent, entry),
                        QMul(QSub(mark, entry), QI(100)))
              /\ QGt(entry, QI(0)) /\ call.side = "SHORT" =>
                    QEq(QMul(ret.percent, entry),
                        QMul(QSub(entry, mark), QI(100)))
    /\ Returned("CalculateDistanceToPrice") =>
          LET current == call.currentPrice
              target == call.targetPrice
          IN  /\ IsFinite(ret.percent)
              /\ ~QGt(current, QI(0)) => ret.percent = QI(0)
              /\ QGt(current, QI(0)) /\ call.side = "LONG" =>
                    QEq(QMul(ret.percent, current),
                        QMul(QSub(target, current), QI(100)))
              /\ QGt(current, QI(0)) /\ call.side = "SHORT" =>
                    QEq(QMul(ret.percent, current),
                        QMul(QSub(current, target), QI(100)))

\* C19 witness: the PnL percent of a Short entered at 0 came back as 0.
C19_Witness ==
    /\ Returned("CalculatePnLPercent")
    /\ call.side = SideShort
    /\ call.entryPrice = QI(0)
    /\ call.markPrice = QI(46000)
    /\ ret.percent = QI(0)

\* the frame of goroutine g holds what its call returns when it runs alone
\* on s
ReturnsAsAlone(s, g) ==
    LET f == goroutines[g]
    IN  CASE f.op = "CalculatePosition" ->
               \E t \in 1 .. MaxTime :
                   f.result \in CalculatePosition(s, f.args.params, t)
          [] f.op = "OnPositionOpened" ->
               f.result = [err |-> OnPositionOpened(s, f.args.position)]
          [] f.op = "OnPriceUpdate" ->
               f.result = OnPriceUpdate(s, f.args.position,
                                        f.args.currentPrice)
          [] f.op = "ShouldClose" ->
               f.result = ShouldClose(s, f.args.position, f.args.currentPrice)
          [] f.op = "Name" -> f.result = [name |-> Name]
          [] f.op = "Description" -> f.result = [text |-> Description(s)]
          [] f.op = "ValidateParams" ->
               f.result = [err |-> ValidateParams(s, f.args.params)]

\* C20: whatever calls of CalculatePosition, OnPositionOpened, OnPriceUpdate
\* and ShouldClose run at once on one RiskRatioStrategy, and however their
\* statements interleave, every call that has finished holds the result it
\* returns when run alone on the strategy as it was built, and no step
\* changes the strategy: it stays New(rr) with its calculator of ceiling 125.
C20_ConcurrentCallsAsAlone ==
    /\ [](/\ strat \in {New(rr) : rr \in DetRRRatios}
          /\ \A g \in Goroutines :
                goroutines[g] # Nil /\ goroutines[g].pc = "done" =>
                    ReturnsAsAlone(strat, g))
    /\ [][strat' = strat]_vars

\* C20 witness: one goroutine has finished a CalculatePosition with a plan
\* while another, called with another request, is between its leverage and
\* its take profit.
C20_Witness ==
    \E g, h \in Goroutines :
        /\ g # h
        /\ At(g, {"CalculatePosition"}, "done")
        /\ goroutines[g].result.plan # Nil
        /\ At(h, {"CalculatePosition"}, "CalculateRRTakeProfit")
        /\ goroutines[h].args.params # goroutines[g].args.params

\* C21: no step of any of the seven operations changes what it was handed or
\* the strategy: the Position given to OnPositionOpened, OnPriceUpdate and
\* ShouldClose and the PositionParams given to CalculatePosition, its Params
\* map included, stay as they were for as long as the call runs, and strat
\* keeps its rrRatio and its calculator.
C21_NothingMutated ==
    [][/\ strat' = strat
       /\ \A g \in Goroutines :
             goroutines[g] # Nil /\ goroutines'[g] # Nil =>
                 goroutines'[g].args = goroutines[g].args]_vars

\* C21 witness: an OnPriceUpdate has run on a snapshot whose mark price is
\* not the price it was given, and a CalculatePosition has returned a plan
\* for a request carrying a Params map.
C21_Witness ==
    \E g, h \in Goroutines :
        /\ At(g, {"OnPriceUpdate"}, "done")
        /\ goroutines[g].args.position.MarkPrice
              # goroutines[g].args.currentPrice
        /\ At(h, {"CalculatePosition"}, "done")
        /\ goroutines[h].result.plan # Nil
        /\ goroutines[h].args.params.Params = [timeframe |-> "1h"]

\* the sum of the Percentage fields of a sequence of levels
RECURSIVE SumOfPercentages(_)
SumOfPercentages(levels) ==
    IF Len(levels) = 0 THEN QI(0)
    ELSE QAdd(levels[1].Percentage, SumOfPercentages(Tail(levels)))

\* C22: MultiTPStrategy.ValidateParams returns an error exactly when the
\* percentages of the configured levels do not sum to 100, and the
\* percentages of the take profits of every plan with several levels that
\* its CalculatePosition returns sum to 100.
C22_PercentagesSumTo100 ==
    /\ Returned("MultiTPStrategy.ValidateParams") =>
          ((ret.err # Nil) <=> ~QEq(SumOfPercentages(strat.tpLevels), QI(100)))
    /\ Returned("MultiTPStrategy.CalculatePosition") /\ ret.plan # Nil
          /\ Len(ret.plan.TakeProfits) >= 2 =>
          QEq(SumOfPercentages(ret.plan.TakeProfits), QI(100))

\* the request of the README's quick start has returned from a strategy
\* built with New(2.0)
QuickStartReturned ==
    /\ Returned("CalculatePosition")
    /\ strat.rrRatio = QI(2)
    /\ call.params.Symbol = "BTC-USDT"
    /\ call.params.Side = SideLong
    /\ call.params.EntryPrice = QI(45000)
    /\ call.params.StopLoss = QI(44500)
    /\ call.params.AccountBalance = QI(1000)
    /\ call.params.RiskPercent = QI(2)
    /\ call.params.MaxLeverage = 125

C24_ConservativeLeverageNarrows ==
    Returned("ConservativeStrategy.CalculatePosition") /\ ret.plan # Nil
        /\ call.params.MaxLeverage >= 1
        /\ call.params.Side \in {SideLong, SideShort} =>
        /\ 1 <= ret.plan.Leverage
        /\ ret.plan.Leverage <= 10
        /\ ret.plan.Leverage <= call.params.MaxLeverage

\* C25: ConservativeStrategy.CalculatePosition returns an error and no plan
\* for every requested RiskPercent that is <= 0 or > 100.
C25_ConservativeRejectsRiskOutOfRange ==
    Returned("ConservativeStrategy.CalculatePosition")
        /\ (\/ QLe(call.params.RiskPercent, QI(0))
            \/ QGt(call.params.RiskPercent, QI(100)))
        => ret.err # Nil /\ ret.plan = Nil

\* The five checks in the order of the claim, each with its error or Nil
ChecksInOrder(side, entryPrice, stopLoss, riskPercent, accountEquity) ==
    << IF QLe(entryPrice, QI(0))
           THEN NewError("entry price must be positive") ELSE Nil,
       IF QLe(stopLoss, QI(0))
           THEN NewError("stop loss must be positive") ELSE Nil,
       IF QLe(riskPercent, QI(0)) \/ QGt(riskPercent, QI(100))
           THEN NewError("risk percent must be between 0 and 100") ELSE Nil,
       IF QLe(accountEquity, QI(0))
           THEN NewError("account equity must be positive") ELSE Nil,
       ValidateStopLoss(side, entryPrice, stopLoss) >>

\* The error of the first failing check of a list, or Nil
FirstFailing(checks) ==
    IF \A i \in 1 .. Len(checks) : checks[i] = Nil THEN Nil
    ELSE checks[CHOOSE i \in 1 .. Len(checks) :
                    checks[i] # Nil /\ \A j \in 1 .. i - 1 : checks[j] = Nil]

\* How many checks of a list fail
FailingCount(checks) ==
    Cardinality({i \in 1 .. Len(checks) : checks[i] # Nil})

\* C26: ValidateInputs reports only the first failing check, in the order
\* entry price, stop-loss positivity, risk percent, account balance,
\* stop-loss/side relation; the error of RiskRatioStrategy.CalculatePosition
\* is that error wrapped with "validation failed", the cause being what
\* unwrapping gives back.
C26_FirstFailingCheckWrapped ==
    /\ Returned("ValidateInputs") =>
          ret.err = FirstFailing(ChecksInOrder(call.side, call.entryPrice,
                                  call.stopLoss, call.riskPercent,
                                  call.accountEquity))
    /\ Returned("CalculatePosition") =>
          LET first == FirstFailing(ChecksInOrder(
                           calculatorSideFromStrategy(call.params.Side),
                           call.params.EntryPrice, call.params.StopLoss,
                           call.params.RiskPercent,
                           call.params.AccountBalance))
          IN  IF first = Nil THEN ret.err = Nil
              ELSE /\ ret.plan = Nil
                   /\ ret.err = WrapError("validation failed", first)
                   /\ ret.err.cause = first

\* CalculatePosition has returned the wrapped stop-loss error for a request
\* that fails three of the checks and passes the first.
C26_Witness ==
    /\ Returned("CalculatePosition")
    /\ ret.err # Nil
    /\ ret.err.cause = NewError("stop loss must be positive")
    /\ FailingCount(ChecksInOrder(
           calculatorSideFromStrategy(call.params.Side),
           call.params.EntryPrice, call.params.StopLoss,
           call.params.RiskPercent, call.params.AccountBalance)) >= 3

\* The request p with its side replaced by Short
AsShort(p) ==
    [Symbol         |-> p.Symbol,
     Side           |-> SideShort,
     EntryPrice     |-> p.EntryPrice,
     StopLoss       |-> p.StopLoss,
     AccountBalance |-> p.AccountBalance,
     RiskPercent    |-> p.RiskPercent,
     MaxLeverage    |-> p.MaxLeverage]

\* C27: RiskRatioStrategy treats every Side other than Long as Short for
\* validation, sizing and the take profit: the call returns what the same
\* request with Side Short returns, the plan's Side apart; a plan is
\* returned only when the stop loss is above the entry; and the plan's Side
\* is the caller's value.
C27_OtherSidesAreShort ==
    Returned("CalculatePosition") /\ call.params.Side # SideLong =>
        /\ \E r \in CalculatePosition(strat, AsShort(call.params), now) :
              /\ r.err = ret.err
              /\ (r.plan = Nil) = (ret.plan = Nil)
              /\ ret.plan # Nil =>
                    \A f \in PlanFields \ {"Side"} : ret.plan[f] = r.plan[f]
        /\ ret.plan # Nil =>
              /\ QGt(call.params.StopLoss, call.params.EntryPrice)
              /\ ret.plan.Side = call.params.Side
              /\ ret.plan.Size =
                    QDiv(QDiv(QMul(call.params.AccountBalance,
                                   call.params.RiskPercent), QI(100)),
                         QSub(call.params.StopLoss, call.params.EntryPrice))
              /\ ret.plan.TakeProfits[1].Price =
                    QSub(call.params.EntryPrice,
                         QMul(QSub(call.params.StopLoss,
                                   call.params.EntryPrice), strat.rrRatio))

\* A plan has been returned for a request whose Side is neither Long nor
\* Short.
C27_Witness ==
    /\ Returned("CalculatePosition")
    /\ call.params.Side \notin {SideLong, SideShort}
    /\ ret.plan # Nil
    /\ ret.plan.Side = call.params.Side

\* C28: for every ratio riskratio.New accepts (stated here for the positive
\* ones only), a Long plan has StopLoss.Price < EntryPrice <
\* TakeProfits[0].Price, a Short plan has TakeProfits[0].Price < EntryPrice <
\* StopLoss.Price, and the take-profit price is strictly positive.
C28_TakeProfitOnProfitSide ==
    Returned("CalculatePosition") /\ ret.plan # Nil
        /\ QGt(strat.rrRatio, QI(0)) =>
        /\ ret.plan.Side = SideLong =>
              /\ QLt(ret.plan.StopLoss.Price, ret.plan.EntryPrice)
              /\ QLt(ret.plan.EntryPrice, ret.plan.TakeProfits[1].Price)
        /\ ret.plan.Side = SideShort =>
              /\ QLt(ret.plan.TakeProfits[1].Price, ret.plan.EntryPrice)
              /\ QLt(ret.plan.EntryPrice, ret.plan.StopLoss.Price)
        /\ ret.plan.Side \in {SideLong, SideShort} =>
              QGt(ret.plan.TakeProfits[1].Price, QI(0))

\* The largest of a non-empty sequence of prices
MaxPrice(prices) ==
    CHOOSE x \in {prices[i] : i \in 1 .. Len(prices)} :
        \A i \in 1 .. Len(prices) : QGe(x, prices[i])

\* The step is a call of op for symbol sym
CallsFor(op, sym) ==
    /\ call = Nil
    /\ call' # Nil
    /\ call'.op = op
    /\ call'.position.Symbol = sym

\* sym has a tracked highest price in strategy s
Tracked(s, sym) == s # Nil /\ sym \in DOMAIN s.highestPrice

\* The highest price tracked for the open position of sym is the largest of
\* its entry price and the prices of the OnPriceUpdate calls made since.
HighestIsMaxSinceOpened ==
    \A sym \in Symbols :
        history[sym] # Nil =>
            /\ Tracked(strat, sym)
            /\ strat.highestPrice[sym] =
                   MaxPrice(<<history[sym].position.EntryPrice>>
                            \o history[sym].prices)

\* Unless OnPositionOpened is called for sym, the highest price tracked for
\* sym does not decrease, and a call for another symbol leaves it as it is.
HighestNeverDecreases ==
    \A sym \in Symbols :
        /\ Tracked(strat, sym)
              /\ ~CallsFor("TrailingStrategy.OnPositionOpened", sym) =>
              /\ Tracked(strat', sym)
              /\ QGe(strat'.highestPrice[sym], strat.highestPrice[sym])
        /\ (\E other \in Symbols \ {sym} :
                \/ CallsFor("TrailingStrategy.OnPositionOpened", other)
                \/ CallsFor("TrailingStrategy.OnPriceUpdate", other)) =>
              /\ Tracked(strat', sym) = Tracked(strat, sym)
              /\ Tracked(strat, sym) =>
                    strat'.highestPrice[sym] = strat.highestPrice[sym]

\* C29: with the calls for one symbol made one at a time, after
\* OnPositionOpened(p) and any OnPriceUpdate(p, price_1 .. price_n) calls the
\* tracked highestPrice[p.Symbol] is max(p.EntryPrice, price_1, ..., price_n);
\* it never decreases between OnPositionOpened calls, and calls for another
\* symbol leave it unchanged.
C29_HighestPriceTracked ==
    []HighestIsMaxSinceOpened /\ [][HighestNeverDecreases]_vars

\* Both symbols have an open position; one has seen a price above its entry
\* and then a lower one, and its tracked highest price is the higher one.
C29_Witness ==
    /\ \A sym \in Symbols : history[sym] # Nil
    /\ \E sym \in Symbols :
          /\ Len(history[sym].prices) = 2
          /\ QGt(history[sym].prices[1], history[sym].position.EntryPrice)
          /\ QLt(history[sym].prices[2], history[sym].prices[1])
          /\ strat.highestPrice[sym] = history[sym].prices[1]
          /\ \E other \in Symbols \ {sym} :
                strat.highestPrice[other] # strat.highestPrice[sym]

\* The profit of a position at a price, in units of its stop distance: for
\* a Long the price gained since the entry, for a Short the price lost
ProfitInRR(position, currentPrice) ==
    QDiv(IF position.Side = SideLong
         THEN QSub(currentPrice, position.EntryPrice)
         ELSE QSub(position.EntryPrice, currentPrice),
         MathAbs(QSub(position.EntryPrice, position.LiquidationPrice)))

\* The NewPrice values emitted for the open Long position of every symbol
\* never go down.
AdjustedStopsNonDecreasing ==
    \A sym \in Symbols :
        history[sym] # Nil /\ history[sym].position.Side = SideLong =>
            \A i \in 1 .. Len(history[sym].adjusted) - 1 :
                QLe(history[sym].adjusted[i], history[sym].adjusted[i + 1])

\* C30: the stop loss of a Long position only moves up: the NewPrice values
\* of the AdjustSL actions of successive OnPriceUpdate calls for one open
\* position are non-decreasing, and OnPriceUpdate returns the action None
\* whenever the current profit in risk-reward terms is below activationRR.
C30_LongStopOnlyMovesUp ==
    /\ AdjustedStopsNonDecreasing
    /\ Returned("TrailingStrategy.OnPriceUpdate")
          /\ call.position.Side = SideLong
          /\ history[call.position.Symbol] # Nil
          /\ IsFinite(ProfitInRR(call.position, call.currentPrice))
          /\ QLt(ProfitInRR(call.position, call.currentPrice),
                 strat.activationRR)
          => ret.action.Type = ActionTypeNone

====
